---- MODULE Spec2Model ----
(***************************************************************************)
(* Verification model of the pyland runtime core:                          *)
(*   - ObjectManager (src/src/object_manager.cpp): the id -> object map    *)
(*   - GameWindow    (src/src/game_window.cpp):    the surface lifecycle   *)
(*   - MapViewer     (src/src/map_viewer.cpp):     the render passes       *)
(* Each component has its own specification over the shared variables;     *)
(* the variables of the other components stay at their initial values.     *)
(***************************************************************************)
EXTENDS Integers, Sequences, FiniteSets, TLC

\* ------------------------------------------------------------------ bounds
\* get_next_id is called at most MaxId times (caps next_object_id).
MaxId == 2
\* Number of Object instances the callers hold.
MaxEnt == 2
\* Number of GameWindows the process creates.
MaxWin == 2
\* Events SDL_PollEvent hands out in one update().
MaxEvents == 2
\* Calls and events the environment issues to the GameWindows in one run.
MaxInputs == 4

\* OVERSCAN_LEFT, OVERSCAN_TOP of the STATIC_OVERSCAN build.
overscan_left == 24
overscan_top == 16
\* Engine::get_actual_tile_size(), in pixels.
actual_tile_size == 2
\* Lengths on the map are counted in 1/Unit of a tile, so that the sprite's
\* half-tile offset and half a viewport are whole numbers.
Unit == 4
\* Largest length and bound centre_point_in_range is applied to, in 1/Unit.
MaxLength == 40
\* How far outside [0, MaxLength] the point may lie, in 1/Unit.
Margin == 8
\* Significant bits a float keeps (24 in the build): a result with more is
\* rounded to the nearest float, ties to even.
MantissaBits == 4

\* The empty shared_ptr / null pointer; objects are numbered from 1.
NULL == 0

Entities == 1..MaxEnt
\* Ids a caller may pass: 0 (none), allocated ids, and unallocated ones.
IdArgs == 0..(MaxId + 1)

VARIABLES
    \* ---- ObjectManager
    next_object_id,   \* static int ObjectManager::next_object_id
    objects,          \* std::map<int, std::shared_ptr<Object>> objects
    obj_id,           \* Object::id of every Object instance
    returned,         \* history: the values get_next_id has returned, in call order
    removed,          \* history: the ids remove_object has erased
    last              \* history: the last registry call, its argument and result

regVars == <<next_object_id, objects, obj_id, returned, removed, last>>

VARIABLES
    \* ---- threads calling into the ObjectManager
    object_manager_mutex,  \* std::mutex: the thread holding it, or 0
    pc,               \* the statement each thread executes next
    t_arg,            \* int argument of the thread's current call
    t_tmp,            \* the value of next_object_id the thread has read
    t_ret,            \* history: what the thread's last get_next_id returned
    map_damaged,      \* the std::map was mutated during another thread's access
    torn_read         \* history: next_object_id was read, unlocked, mid-increment

thrVars == <<object_manager_mutex, pc, t_arg, t_tmp, t_ret, map_damaged, torn_read>>

VARIABLES
    \* ---- Map contents and MapViewer render passes
    map_sprites,      \* Map::get_sprites(): ids, 0 is an empty slot
    map_objects,      \* Map::get_map_objects(): ids, 0 is an empty slot
    no_shader,        \* Object instances whose renderable component has no shader
    kind,             \* dynamic type of every Object instance, set when constructed
    frame             \* what render() did, if it was the last call, in order

renVars == <<map_sprites, map_objects, no_shader, kind, frame>>

VARIABLES
    \* ---- GameWindow (the USE_GLES build, direct rendering enabled)
    windows,          \* static std::map<Uint32,GameWindow*> windows (its keys)
    null_windows,     \* the keys of windows that map to nullptr
    sdl_up,           \* SDL is initialised (init_sdl done, deinit_sdl not)
    gw,               \* the GameWindow objects windows points to, by id
    os_geom,          \* where the window system really has each window
    focused_window,   \* static GameWindow* focused_window, 0 is nullptr
    upd_pc,           \* where GameWindow::update() is: idle, poll or post
    upd_todo,         \* windows the second loop of update() has yet to visit
    polled,           \* events SDL_PollEvent has handed out in this update()
    close_all,        \* bool close_all of update()
    next_window_id,   \* the id SDL_GetWindowID gives the next window
    inputs,           \* calls and events the environment has issued so far
    call              \* history: the last GameWindow call and how it ended

winVars == <<windows, null_windows, sdl_up, gw, os_geom, focused_window, upd_pc, upd_todo,
             polled, close_all, next_window_id, inputs, call>>
\* The GameWindow state proper, without the count of calls made.
winRest == <<windows, null_windows, sdl_up, gw, os_geom, focused_window, upd_pc, upd_todo,
             polled, close_all, next_window_id, call>>

VARIABLES
    \* ---- MapViewer (the viewport) and the Challenge that owns the Map
    map,              \* Map* MapViewer::map: a map, or 0 (nullptr)
    challenge_map,    \* Map* Challenge::map of the running Challenge, 0: none
    map_focus_object, \* int MapViewer::map_focus_object, 0 is no focus
    display_x,        \* viewport origin, in 1/Unit of a tile
    display_y,
    display_width,    \* viewport size, in 1/Unit of a tile
    display_height,
    position,         \* Sprite::get_position() of every Object instance, in tiles
    vcall,            \* history: the game's last call, its argument, a fatal CHECK
    centre            \* history: the last centre_point_in_range application

viewVars == <<map, challenge_map, map_focus_object, display_x, display_y,
              display_width, display_height, position, vcall, centre>>
\* The MapViewer state proper, without the record of the last call.
viewRest == <<map, challenge_map, map_focus_object, display_x, display_y,
              display_width, display_height, position, centre>>

VARIABLES
    \* ---- Shader::ShaderCache of one graphics context, and its Shaders
    shaders,          \* std::map<std::string, std::weak_ptr<Shader>> shaders
    shader_objs,      \* the Shader objects made so far: member program_name, owners
    scall             \* history: the last cache call, what it returned, how it ended

shdVars == <<shaders, shader_objs, scall>>

vars == <<regVars, thrVars, renVars, winVars, viewVars, shdVars>>

\* ------------------------------------------------------------ ObjectManager
NoCall == [op |-> "none", arg |-> 0, ret |-> 0, ok |-> FALSE]
Call(op, arg, ret, ok) == [op |-> op, arg |-> arg, ret |-> ret, ok |-> ok]

RegInit ==
    /\ next_object_id = 1
    /\ objects = << >>
    /\ obj_id = [e \in Entities |-> 0]
    /\ returned = << >>
    /\ removed = {}
    /\ last = NoCall

\* The map with key k bound to e (objects[k] = e) / with key k erased.
MapStore(m, k, e) == [j \in (DOMAIN m) \cup {k} |-> IF j = k THEN e ELSE m[j]]
MapErase(m, k) == [j \in (DOMAIN m) \ {k} |-> m[j]]

is_valid_object_id_le(id) == 0 < id /\ id <= next_object_id
is_valid_object_id(id) == 0 < id /\ id < next_object_id

\* Kind of an Object instance: what it was constructed as (make_shared<Sprite>,
\* make_shared<MapObject>).
KindOf(e) == kind[e]

\* get_object<R>(id): the entry under id cast to R, or the empty pointer.
get_object(id, k) ==
    IF id \in DOMAIN objects /\ KindOf(objects[id]) = k THEN objects[id] ELSE NULL

\* Any-kind lookup of the map entry itself.
lookup(id) == IF id \in DOMAIN objects THEN objects[id] ELSE NULL

get_next_id_no_increment(object) ==
    /\ next_object_id <= MaxId
    /\ obj_id' = [obj_id EXCEPT ![object] = next_object_id]
    /\ returned' = Append(returned, next_object_id)
    /\ last' = Call("get_next_id", object, next_object_id, TRUE)
    /\ UNCHANGED <<next_object_id, objects, removed>>
get_next_id(object) ==
    /\ next_object_id <= MaxId
    /\ obj_id' = [obj_id EXCEPT ![object] = next_object_id]
    /\ returned' = Append(returned, next_object_id)
    /\ next_object_id' = next_object_id + 1
    /\ last' = Call("get_next_id", object, next_object_id, TRUE)
    /\ UNCHANGED <<objects, removed>>

add_object_keep_first(new_object) ==
    /\ IF new_object = NULL
         THEN /\ last' = Call("add_object", new_object, 0, FALSE)
              /\ UNCHANGED objects
         ELSE IF ~is_valid_object_id(obj_id[new_object])
         THEN /\ last' = Call("add_object", new_object, 0, FALSE)
              /\ UNCHANGED objects
         ELSE /\ objects' = IF obj_id[new_object] \in DOMAIN objects
                              THEN objects
                              ELSE MapStore(objects, obj_id[new_object], new_object)
              /\ last' = Call("add_object", new_object, 0, TRUE)
    /\ UNCHANGED <<next_object_id, obj_id, returned, removed>>
add_object(new_object) ==
    /\ IF new_object = NULL
         THEN /\ last' = Call("add_object", new_object, 0, FALSE)
              /\ UNCHANGED objects
         ELSE IF ~is_valid_object_id(obj_id[new_object])
         THEN /\ last' = Call("add_object", new_object, 0, FALSE)
              /\ UNCHANGED objects
         ELSE /\ objects' = MapStore(objects, obj_id[new_object], new_object)
              /\ last' = Call("add_object", new_object, 0, TRUE)
    /\ UNCHANGED <<next_object_id, obj_id, returned, removed>>

remove_object_recycle(object_id) ==
    /\ IF object_id \in DOMAIN objects
         THEN /\ objects' = MapErase(objects, object_id)
              /\ removed' = removed \cup {object_id}
              /\ next_object_id' =
                    IF object_id + 1 = next_object_id THEN object_id ELSE next_object_id
              /\ last' = Call("remove_object", object_id, 0, TRUE)
         ELSE /\ last' = Call("remove_object", object_id, 0, FALSE)
              /\ UNCHANGED <<objects, removed, next_object_id>>
    /\ UNCHANGED <<obj_id, returned>>
remove_object_clear(object_id) ==
    /\ IF object_id \in DOMAIN objects
         THEN /\ objects' = << >>
              /\ removed' = removed \cup {object_id}
              /\ last' = Call("remove_object", object_id, 0, TRUE)
         ELSE /\ last' = Call("remove_object", object_id, 0, FALSE)
              /\ UNCHANGED <<objects, removed>>
    /\ UNCHANGED <<next_object_id, obj_id, returned>>
remove_object(object_id) ==
    /\ IF object_id \in DOMAIN objects
         THEN /\ objects' = MapErase(objects, object_id)
              /\ removed' = removed \cup {object_id}
              /\ last' = Call("remove_object", object_id, 0, TRUE)
         ELSE /\ last' = Call("remove_object", object_id, 0, FALSE)
              /\ UNCHANGED <<objects, removed>>
    /\ UNCHANGED <<next_object_id, obj_id, returned>>

\* Object::set_id called by code outside the registry, with any id up to the
\* first unallocated one.
set_id(object, id) ==
    /\ id <= next_object_id
    /\ obj_id' = [obj_id EXCEPT ![object] = id]
    /\ last' = Call("set_id", 0, 0, TRUE)
    /\ UNCHANGED <<next_object_id, objects, returned, removed>>

\* ------------------------------------------- ObjectManager, called by threads
\* Every thread holds one Object instance (its own) and calls the registry
\* statement by statement; Threads are numbered like their objects.
Threads == Entities

ThrInit ==
    /\ object_manager_mutex = 0
    /\ pc = [t \in Threads |-> "idle"]
    /\ t_arg = [t \in Threads |-> 0]
    /\ t_tmp = [t \in Threads |-> 0]
    /\ t_ret = [t \in Threads |-> 0]
    /\ map_damaged = FALSE
    /\ torn_read = FALSE

\* The statements of get_next_id between taking and releasing the lock.
CriticalPcs == {"gni_set_id", "gni_read", "gni_write", "gni_unlock"}
\* Statements that read / write the std::map, and that read / write
\* next_object_id without the lock.
MapReadPcs == {"rm_count", "get_find"}
MapWritePcs == {"add_store", "rm_erase"}
NextIdReadPcs == {"add_valid", "valid_read"}

Goto(t, l) == pc' = [pc EXCEPT ![t] = l]
\* The call returns: its argument and locals are gone.
Return(t) ==
    /\ pc' = [pc EXCEPT ![t] = "idle"]
    /\ t_arg' = [t_arg EXCEPT ![t] = 0]
    /\ t_tmp' = [t_tmp EXCEPT ![t] = 0]

\* Another thread is about to access the map while t mutates it.
MapAccessRacing(t) ==
    \E u \in Threads \ {t} : pc[u] \in MapReadPcs \cup MapWritePcs
\* A mutation that races leaves the map intact or damaged (undefined behaviour).
RacyMapWrite(t) ==
    IF MapAccessRacing(t) THEN map_damaged' \in {map_damaged, TRUE}
    ELSE UNCHANGED map_damaged

\* t reads next_object_id without the lock while another thread is between
\* the read and the write of next_object_id++.
UnlockedNextIdRead(t) ==
    torn_read' = (torn_read \/ \E u \in Threads \ {t} : pc[u] = "gni_write")

\* A thread starts a call.
t_call(t) ==
    /\ pc[t] = "idle"
    /\ \/ /\ next_object_id + Cardinality({u \in Threads : pc[u] \in CriticalPcs \cup {"gni_lock"}})
              <= MaxId
          /\ Goto(t, "gni_lock")
          /\ UNCHANGED t_arg
       \/ /\ Goto(t, "add_valid")
          /\ t_arg' = [t_arg EXCEPT ![t] = obj_id[t]]
       \/ \E k \in {obj_id[u] : u \in Threads} \ {0} :
             /\ t_arg' = [t_arg EXCEPT ![t] = k]
             /\ \E l \in {"rm_count", "get_find", "valid_read"} : Goto(t, l)
    /\ UNCHANGED <<regVars, object_manager_mutex, t_tmp, t_ret, map_damaged, torn_read>>

\* std::lock_guard<std::mutex> lock(object_manager_mutex);
gni_lock_no_wait(t) ==
    /\ pc[t] = "gni_lock"
    /\ object_manager_mutex' = t
    /\ Goto(t, "gni_set_id")
    /\ UNCHANGED <<regVars, t_arg, t_tmp, t_ret, map_damaged, torn_read>>
gni_lock(t) ==
    /\ pc[t] = "gni_lock"
    /\ object_manager_mutex = 0
    /\ object_manager_mutex' = t
    /\ Goto(t, "gni_set_id")
    /\ UNCHANGED <<regVars, t_arg, t_tmp, t_ret, map_damaged, torn_read>>

\* object->set_id(next_object_id);
gni_set_id(t) ==
    /\ pc[t] = "gni_set_id"
    /\ obj_id' = [obj_id EXCEPT ![t] = next_object_id]
    /\ Goto(t, "gni_read")
    /\ UNCHANGED <<next_object_id, objects, returned, removed, last>>
    /\ UNCHANGED <<object_manager_mutex, t_arg, t_tmp, t_ret, map_damaged, torn_read>>

\* return next_object_id++;  (the read of the post-increment)
gni_read(t) ==
    /\ pc[t] = "gni_read"
    /\ t_tmp' = [t_tmp EXCEPT ![t] = next_object_id]
    /\ Goto(t, "gni_write")
    /\ UNCHANGED <<regVars, object_manager_mutex, t_arg, t_ret, map_damaged, torn_read>>

\* return next_object_id++;  (the write of the post-increment)
gni_write(t) ==
    /\ pc[t] = "gni_write"
    /\ next_object_id' = t_tmp[t] + 1
    /\ Goto(t, "gni_unlock")
    /\ UNCHANGED <<objects, obj_id, returned, removed, last>>
    /\ UNCHANGED <<object_manager_mutex, t_arg, t_tmp, t_ret, map_damaged, torn_read>>

\* The lock_guard is destroyed and the value read is returned.
gni_unlock(t) ==
    /\ pc[t] = "gni_unlock"
    /\ object_manager_mutex' = IF object_manager_mutex = t THEN 0 ELSE object_manager_mutex
    /\ returned' = Append(returned, t_tmp[t])
    /\ t_ret' = [t_ret EXCEPT ![t] = t_tmp[t]]
    /\ Return(t)
    /\ UNCHANGED <<next_object_id, objects, obj_id, removed, last>>
    /\ UNCHANGED <<map_damaged, torn_read>>

\* add_object: if(!is_valid_object_id(object_id)) return false;
t_add_valid(t) ==
    /\ pc[t] = "add_valid"
    /\ IF is_valid_object_id(t_arg[t])
         THEN Goto(t, "add_store") /\ UNCHANGED <<t_arg, t_tmp>>
         ELSE Return(t)
    /\ UnlockedNextIdRead(t)
    /\ UNCHANGED <<regVars, object_manager_mutex, t_ret, map_damaged>>

\* add_object: objects[object_id] = new_object;
t_add_store(t) ==
    /\ pc[t] = "add_store"
    /\ objects' = MapStore(objects, t_arg[t], t)
    /\ RacyMapWrite(t)
    /\ Return(t)
    /\ UNCHANGED <<next_object_id, obj_id, returned, removed, last>>
    /\ UNCHANGED <<object_manager_mutex, t_ret, torn_read>>

\* remove_object: if (objects.count(object_id)>0)
t_rm_count(t) ==
    /\ pc[t] = "rm_count"
    /\ IF t_arg[t] \in DOMAIN objects
         THEN Goto(t, "rm_erase") /\ UNCHANGED <<t_arg, t_tmp>>
         ELSE Return(t)
    /\ UNCHANGED <<regVars, object_manager_mutex, t_ret, map_damaged, torn_read>>

\* remove_object: objects.erase(object_id);
t_rm_erase(t) ==
    /\ pc[t] = "rm_erase"
    /\ objects' = MapErase(objects, t_arg[t])
    /\ RacyMapWrite(t)
    /\ Return(t)
    /\ UNCHANGED <<next_object_id, obj_id, returned, removed, last>>
    /\ UNCHANGED <<object_manager_mutex, t_ret, torn_read>>

\* get_object: the find in the map; is_valid_object_id: the read of
\* next_object_id. Neither changes anything.
t_read_only(t) ==
    /\ pc[t] \in {"get_find", "valid_read"}
    /\ Return(t)
    /\ IF pc[t] = "valid_read" THEN UnlockedNextIdRead(t) ELSE UNCHANGED torn_read
    /\ UNCHANGED <<regVars, object_manager_mutex, t_ret, map_damaged>>

\* ------------------------------------------------------ MapViewer, viewport
\* Content-area geometries <<x, y, w, h>> the window system may report.
Geoms == { <<0, 0, 2, 2>>, <<1, 0, 2, 2>>, <<0, 0, 3, 2>> }

\* float(size) / Engine::get_actual_tile_size(), as the exact ratio.
FloatDiv(a, b) == [num |-> a, den |-> b]

Max2(a, b) == IF a < b THEN b ELSE a      \* std::max
Min2(a, b) == IF b < a THEN b ELSE a      \* std::min

Abs(n) == IF n < 0 THEN 0 - n ELSE n

\* The spacing of the floats around n, in 1/Unit: 1 below 2^MantissaBits,
\* doubling with every further binary digit.
RECURSIVE Ulp(_, _)
Ulp(n, q) == IF Abs(n) < (2 ^ MantissaBits) * q THEN q ELSE Ulp(n, 2 * q)

\* The float nearest to the exact value n (round to nearest, ties to even).
Fl(n) ==
    LET q == Ulp(n, 1)
        lo == (n \div q) * q
        r == n - lo
    IN  IF 2 * r < q THEN lo
        ELSE IF 2 * r > q THEN lo + q
        ELSE IF (lo \div q) % 2 = 0 THEN lo ELSE lo + q

\* centre_point_in_range centring on point - bound, the bound not halved.
centre_point_in_range_not_halved(point, length, bound) ==
    LET bound_offset == Fl(point - bound)
    IN  IF length >= bound
          THEN Min2(Max2(bound_offset, 0), Fl(length - bound))
          ELSE Max2(Min2(bound_offset, 0), Fl(length - bound))

\* centre_point_in_range with the clamp always taken against [0, length - bound].
centre_point_in_range_one_case(point, length, bound) ==
    Min2(Max2(Fl(point - bound \div 2), 0), Fl(length - bound))

\* float centre_point_in_range(float point, float length, float bound):
\* bound / 2.0f is exact (bound is an even number of 1/Unit), the two
\* subtractions round.
centre_point_in_range(point, length, bound) ==
    LET bound_offset == Fl(point - bound \div 2)
    IN  IF length >= bound
          THEN Min2(Max2(bound_offset, 0), Fl(length - bound))
        ELSE IF bound >= length
          THEN Max2(Min2(bound_offset, 0), Fl(length - bound))
        ELSE bound_offset

\* The arguments the function is exercised on.
Floats(S) == {n \in S : Fl(n) = n}
Points == Floats((0 - Margin)..(MaxLength + Margin))
Lengths == Floats(0..MaxLength)
Bounds == {b \in Floats(0..MaxLength) : b % 2 = 0}

NoCentre == [applied |-> 0, point |-> 0, length |-> 0, bound |-> 0, offset |-> 0, again |-> 0]

\* o = centre_point_in_range(point, length, bound), on arguments drawn once.
centre_apply(point, length, bound) ==
    /\ centre.applied = 0
    /\ centre' = [applied |-> 1, point |-> point, length |-> length, bound |-> bound,
                  offset |-> centre_point_in_range(point, length, bound), again |-> 0]
    /\ UNCHANGED <<map, challenge_map, map_focus_object, display_x, display_y,
                   display_width, display_height, position, vcall>>

\* centre_point_in_range(o + bound/2, length, bound): the centre of the
\* viewport just placed is the new point.
centre_reapply ==
    /\ centre.applied = 1
    /\ centre' = [centre EXCEPT !.applied = 2,
                     !.again = centre_point_in_range(Fl(centre.offset + centre.bound \div 2),
                                                     centre.length, centre.bound)]
    /\ UNCHANGED <<map, challenge_map, map_focus_object, display_x, display_y,
                   display_width, display_height, position, vcall>>

\* ---------------------------------------------- Challenge, Map and MapViewer
\* The Map objects a Challenge may load or a caller may bind: two maps of
\* different shape and layer count.
Maps == {1, 2}
\* Calls made to the Challenge, the MapViewer and the registry in one run.
MaxCalls == 4
\* Largest tile coordinate a sprite stands on.
MaxPos == 2
Positions == {<<0, 0>>, <<MaxPos, MaxPos>>}
\* window->get_size(): what the window reports, in pixels.
WindowSizes == {<<g[3], g[4]>> : g \in Geoms}

\* map->get_width(), map->get_height() in 1/Unit: map 1 is 3 x 1 tiles, the
\* others 1 x 3 tiles.
map_width(m) == IF m = 1 THEN 3 * Unit ELSE Unit
map_height(m) == IF m = 1 THEN Unit ELSE 3 * Unit
\* map->get_layers(): how many layers the map has (none without a map).
map_layers(m) == IF m = NULL THEN 0 ELSE m

\* A float(size) / tile size ratio in 1/Unit of a tile.
ToUnits(r) == (r.num * Unit) \div r.den

ViewCall(op, arg, fatal) == [op |-> op, arg |-> arg, fatal |-> fatal]

RenInit ==
    /\ map_sprites = << >>
    /\ map_objects = << >>
    /\ no_shader = {}
    /\ kind = [e \in Entities |-> "none"]
    /\ frame = << >>

\* MapViewer::MapViewer: no map, no focus, the origin at 0, and resize() on
\* the window's first size.
ViewInit ==
    /\ map = NULL
    /\ challenge_map = NULL
    /\ map_focus_object = 0
    /\ display_x = 0
    /\ display_y = 0
    /\ display_width = ToUnits(FloatDiv(2, actual_tile_size))
    /\ display_height = ToUnits(FloatDiv(2, actual_tile_size))
    /\ position = [e \in Entities |-> <<0, 0>>]
    /\ vcall = ViewCall("none", 0, FALSE)
    /\ centre = NoCentre

\* A CHECK has failed or a null pointer was followed: the process is gone.
Alive == ~vcall.fatal

\* What a read through the null Map* may yield when the process survives it.
GarbageLengths == {0, 3 * Unit}

\* The viewport origin, and whether the process died computing it.
Origin(x, y) == [x |-> x, y |-> y, fatal |-> FALSE]

\* refocus_map() that scrolls to the far corner of the map when the focus
\* sprite is missing.
refocus_map_far_corner(focus, sprite, pos, m, width, height) ==
    IF focus = 0 \/ m = NULL THEN {Origin(display_x, display_y)}
    ELSE LET at == IF sprite = NULL THEN <<MaxPos, MaxPos>> ELSE pos
         IN  { Origin(centre_point_in_range(Fl(at[1] * Unit + Unit \div 2), map_width(m), width),
                      centre_point_in_range(Fl(at[2] * Unit + Unit \div 2), map_height(m), height)) }

\* void MapViewer::refocus_map(): the origins it may leave, for the focus id,
\* the Sprite get_object<Sprite>(focus) gave (NULL: none) and its position,
\* the bound map and the viewport size. With a sprite but no map, map->get_width() follows a
\* null pointer.
refocus_map(focus, sprite, pos, m, width, height) ==
    IF focus = 0 THEN {Origin(display_x, display_y)}
    ELSE IF sprite = NULL THEN {Origin(display_x, display_y)}
    ELSE IF m = NULL
      THEN {[x |-> display_x, y |-> display_y, fatal |-> TRUE]} \cup
           { Origin(centre_point_in_range(Fl(pos[1] * Unit + Unit \div 2), l, width),
                    centre_point_in_range(Fl(pos[2] * Unit + Unit \div 2), l, height))
               : l \in GarbageLengths }
    ELSE { Origin(centre_point_in_range(Fl(pos[1] * Unit + Unit \div 2),
                                        map_width(m), width),
                  centre_point_in_range(Fl(pos[2] * Unit + Unit \div 2),
                                        map_height(m), height)) }

\* sprite->get_position() of the sprite the focus resolved to.
SpritePos(s) == IF s = NULL THEN <<0, 0>> ELSE position[s]

\* The viewport origin becomes r; a fatal r ends the process in call op.
SetOrigin(r, op, arg) ==
    /\ display_x' = r.x
    /\ display_y' = r.y
    /\ vcall' = ViewCall(op, arg, r.fatal)

\* void MapViewer::set_map(Map* new_map)
set_map(new_map) ==
    /\ Alive
    /\ map' = new_map
    /\ vcall' = ViewCall("set_map", new_map, FALSE)
    /\ UNCHANGED <<challenge_map, map_focus_object, display_x, display_y,
                   display_width, display_height, position, centre>>

\* set_map_focus_object storing the id before it is validated.
focus_to_store_unchecked(object_id) == object_id

\* The focus id set_map_focus_object(object_id) leaves.
focus_to_store(object_id) ==
    IF is_valid_object_id(object_id) THEN object_id ELSE map_focus_object

\* void MapViewer::set_map_focus_object(int object_id)
set_map_focus_object(object_id) ==
    /\ Alive
    /\ map_focus_object' = focus_to_store(object_id)
    /\ IF is_valid_object_id(object_id)
         THEN \E r \in refocus_map(map_focus_object', get_object(map_focus_object', "Sprite"),
                                   SpritePos(get_object(map_focus_object', "Sprite")), map, display_width, display_height) :
                 SetOrigin(r, "set_map_focus_object", object_id)
         ELSE /\ vcall' = ViewCall("set_map_focus_object", object_id, FALSE)
              /\ UNCHANGED <<display_x, display_y>>
    /\ UNCHANGED <<map, challenge_map, display_width, display_height, position, centre>>

\* refocus_map() called on its own.
call_refocus_map ==
    /\ Alive
    /\ \E r \in refocus_map(map_focus_object, get_object(map_focus_object, "Sprite"),
                                   SpritePos(get_object(map_focus_object, "Sprite")),
                            map, display_width, display_height) :
          SetOrigin(r, "refocus_map", 0)
    /\ UNCHANGED <<map, challenge_map, map_focus_object, display_width, display_height,
                   position, centre>>

\* void MapViewer::resize(), the window reporting size.
MapViewer_resize(size) ==
    /\ Alive
    /\ display_width' = ToUnits(FloatDiv(size[1], actual_tile_size))
    /\ display_height' = ToUnits(FloatDiv(size[2], actual_tile_size))
    /\ IF map # NULL
         THEN \E r \in refocus_map(map_focus_object, get_object(map_focus_object, "Sprite"),
                                   SpritePos(get_object(map_focus_object, "Sprite")),
                                   map, display_width', display_height') :
                 SetOrigin(r, "resize", size)
         ELSE /\ vcall' = ViewCall("resize", size, FALSE)
              /\ UNCHANGED <<display_x, display_y>>
    /\ UNCHANGED <<map, challenge_map, map_focus_object, position, centre>>

\* A registered sprite walks to tile p (Sprite::set_position).
sprite_move(e, p) ==
    /\ Alive
    /\ KindOf(e) = "Sprite"
    /\ obj_id[e] \in DOMAIN objects
    /\ objects[obj_id[e]] = e
    /\ position[e] # p
    /\ position' = [position EXCEPT ![e] = p]
    /\ vcall' = ViewCall("set_position", obj_id[e], FALSE)
    /\ UNCHANGED <<map, challenge_map, map_focus_object, display_x, display_y,
                   display_width, display_height, centre>>

Ev(pass, slot, ev) == [pass |-> pass, slot |-> slot, ev |-> ev]

\* Constructing a Sprite / MapObject gives it the next id (get_next_id), then
\* ObjectManager::add_object(new_object) and map->add_sprite(id) /
\* map->add_map_object(id). The object's renderable component may lack a shader.
make_object(e, shaderless, k, p) ==
    /\ obj_id[e] = 0
    /\ next_object_id <= MaxId
    /\ obj_id' = [obj_id EXCEPT ![e] = next_object_id]
    /\ returned' = Append(returned, next_object_id)
    /\ next_object_id' = next_object_id + 1
    /\ objects' = MapStore(objects, next_object_id, e)
    /\ last' = Call("add_object", e, 0, TRUE)
    /\ no_shader' = IF shaderless THEN no_shader \cup {e} ELSE no_shader
    /\ kind' = [kind EXCEPT ![e] = k]
    /\ position' = [position EXCEPT ![e] = p]
    /\ frame' = << >>
    /\ UNCHANGED <<removed, centre>>

\* int Challenge::make_sprite(position, ...), the MapViewer having map vm
\* bound: the new sprite takes the focus. op is the call it is made in.
Challenge_make_sprite(e, shaderless, p, vm, op) ==
    /\ make_object(e, shaderless, "Sprite", p)
    /\ map_sprites' = Append(map_sprites, next_object_id)
    /\ map_focus_object' = next_object_id
    /\ \E r \in refocus_map(next_object_id, e, p, vm, display_width, display_height) :
          /\ display_x' = r.x
          /\ display_y' = r.y
          /\ vcall' = ViewCall(op, next_object_id, r.fatal)
    /\ UNCHANGED <<map_objects, display_width, display_height>>

make_sprite(e, shaderless, p) ==
    /\ Alive
    /\ challenge_map # NULL
    /\ Challenge_make_sprite(e, shaderless, p, map, "make_sprite")
    /\ UNCHANGED <<map, challenge_map>>

\* int Challenge::make_map_object(position, ...)
make_map_object(e, shaderless) ==
    /\ Alive
    /\ challenge_map # NULL
    /\ make_object(e, shaderless, "MapObject", <<0, 0>>)
    /\ map_objects' = Append(map_objects, next_object_id)
    /\ vcall' = ViewCall("make_map_object", next_object_id, FALSE)
    /\ UNCHANGED <<map_sprites, map, challenge_map, map_focus_object, display_x, display_y,
                   display_width, display_height>>

\* Challenge::Challenge: map = new Map(name), map_viewer->set_map(map), and
\* make_sprite for the player.
Challenge_ctor(m, e, shaderless, p) ==
    /\ Alive
    /\ challenge_map = NULL
    /\ challenge_map' = m
    /\ map' = m
    /\ Challenge_make_sprite(e, shaderless, p, m, "Challenge")

\* An Object made and registered by code other than the Challenge (the
\* constructor takes the next id, then ObjectManager::add_object): it is on
\* no map's list.
register_object(e) ==
    /\ Alive
    /\ make_object(e, FALSE, "Sprite", <<0, 0>>)
    /\ vcall' = ViewCall("add_object", next_object_id, FALSE)
    /\ UNCHANGED <<map_sprites, map_objects, map, challenge_map, map_focus_object,
                   display_x, display_y, display_width, display_height>>

\* The registry after remove_object(id) for every id of ids, in order.
RECURSIVE remove_objects(_, _)
remove_objects(objs, ids) ==
    IF ids = << >> THEN objs
    ELSE remove_objects(IF Head(ids) \in DOMAIN objs THEN MapErase(objs, Head(ids)) ELSE objs,
                        Tail(ids))

\* The ids ~Challenge removes when it forgets its map objects.
owned_ids_sprites_only(sprite_ids, map_object_ids) == sprite_ids
\* The ids ~Challenge removes: sprite_ids, then map_object_ids. Both vectors
\* are pushed to together with the Map's lists (make_sprite, make_map_object).
owned_ids(sprite_ids, map_object_ids) == sprite_ids \o map_object_ids

\* Challenge::~Challenge: remove_object for every sprite id and map object id
\* it made, map_viewer->set_map(nullptr), delete map.
Challenge_dtor ==
    /\ Alive
    /\ challenge_map # NULL
    /\ LET ids == owned_ids(map_sprites, map_objects)
           gone == {ids[i] : i \in 1..Len(ids)} \cap DOMAIN objects
       IN  /\ objects' = remove_objects(objects, ids)
           /\ removed' = removed \cup gone
           /\ last' = IF ids = << >> THEN last
                      ELSE Call("remove_object", ids[Len(ids)], 0, ids[Len(ids)] \in gone)
    /\ map' = NULL
    /\ challenge_map' = NULL
    /\ map_sprites' = << >>
    /\ map_objects' = << >>
    /\ frame' = << >>
    /\ vcall' = ViewCall("~Challenge", 0, FALSE)
    /\ UNCHANGED <<next_object_id, obj_id, returned, no_shader, kind, map_focus_object,
                   display_x, display_y, display_width, display_height, position, centre>>

\* bind_shader, bind_vbos, bind_textures, glDrawArrays, release_textures,
\* release_vbos, release_shader of one renderable component.
DrawSteps == << "bind_shader", "bind_vbos", "bind_textures", "draw",
                "release_textures", "release_vbos", "release_shader" >>
Drawn(pass, slot) == [j \in 1..Len(DrawSteps) |-> Ev(pass, slot, DrawSteps[j])]

\* bind_shader(), then if (shader == nullptr) { LOG(ERROR); return; }
NoShaderReturn(pass, slot) == << Ev(pass, slot, "bind_shader"), Ev(pass, slot, "no_shader_return") >>

\* The loop of render_sprites / render_objects from slot i on. ub is what the
\* build does on the dereference of an empty shared_ptr (undefined
\* behaviour): the process dies there, or the loop goes on with garbage.
RECURSIVE PassLog(_, _, _, _, _)
PassLog(pass, k, ids, i, ub) ==
    IF i > Len(ids) THEN << >>
    ELSE IF ids[i] = 0 THEN PassLog(pass, k, ids, i + 1, ub)
    ELSE IF get_object(ids[i], k) = NULL
        THEN IF ub = "crash"
               THEN << Ev(pass, i, "crash") >>
               ELSE << Ev(pass, i, "deref_empty") >> \o PassLog(pass, k, ids, i + 1, ub)
    ELSE IF get_object(ids[i], k) \in no_shader
        THEN NoShaderReturn(pass, i)
    ELSE Drawn(pass, i) \o PassLog(pass, k, ids, i + 1, ub)

\* map->get_sprites(), map->get_map_objects() of the map the viewer has bound:
\* the Challenge's map holds what the Challenge made, another map nothing.
get_sprites(m) == IF m # NULL /\ m = challenge_map THEN map_sprites ELSE << >>
get_map_objects(m) == IF m # NULL /\ m = challenge_map THEN map_objects ELSE << >>

render_sprites(ub) == PassLog("sprites", "Sprite", get_sprites(map), 1, ub)
render_objects(ub) == PassLog("objects", "MapObject", get_map_objects(map), 1, ub)

\* The layer loop of render_map(), base layer first.
RECURSIVE render_map(_, _)
render_map(i, n) ==
    IF i > n THEN << >> ELSE Drawn("layers", i) \o render_map(i + 1, n)

\* render_gui(): the GUI's component, or the early return without a shader.
render_gui(gui_shader) ==
    IF gui_shader THEN Drawn("gui", 0) ELSE NoShaderReturn("gui", 0)

Crashed(log) == \E i \in 1..Len(log) : log[i].ev = "crash"

\* render() with the sprites drawn under the map objects.
RenderLog_sprites_first(ub, gui_shader) ==
    LET l0 == << Ev("clear", 0, "clear") >> \o render_map(1, map_layers(map))
        l1 == l0 \o render_sprites(ub)
        l2 == IF Crashed(l1) THEN l1 ELSE l1 \o render_objects(ub)
    IN  IF Crashed(l2) THEN l2 ELSE l2 \o render_gui(gui_shader)

\* MapViewer::render() past its CHECK: clear, then the passes in order; a
\* pass after a crash does not run.
RenderLog(ub, gui_shader) ==
    LET l0 == << Ev("clear", 0, "clear") >> \o render_map(1, map_layers(map))
        l1 == l0 \o render_objects(ub)
        l2 == IF Crashed(l1) THEN l1 ELSE l1 \o render_sprites(ub)
    IN  IF Crashed(l2) THEN l2 ELSE l2 \o render_gui(gui_shader)

\* CHECK_NOTNULL(map) left out.
check_notnull_skipped(m) == TRUE
\* CHECK_NOTNULL(map) passes.
check_notnull(m) == m # NULL

\* void MapViewer::render(): the CHECK, glClear, render_map() with its
\* refocus_map(), render_objects(), render_sprites(), render_gui().
render ==
    /\ Alive
    /\ IF check_notnull(map)
         THEN /\ \E r \in refocus_map(map_focus_object, get_object(map_focus_object, "Sprite"),
                                   SpritePos(get_object(map_focus_object, "Sprite")),
                                      map, display_width, display_height) :
                   /\ SetOrigin(r, "render", 0)
                   /\ IF r.fatal
                        THEN frame' = << Ev("clear", 0, "clear") >>
                        ELSE \E ub \in {"crash", "garbage"}, gui_shader \in BOOLEAN :
                                frame' = RenderLog(ub, gui_shader)
         ELSE /\ vcall' = ViewCall("render", 0, TRUE)
              /\ frame' = << >>
              /\ UNCHANGED <<display_x, display_y>>
    /\ UNCHANGED <<regVars, map_sprites, map_objects, no_shader, kind, map, challenge_map,
                   map_focus_object, display_width, display_height, position, centre>>

\* ----------------------------------------------------------------- GameWindow
WinIds == 1..MaxWin

\* The fields of a GameWindow before its constructor has run.
NoWindow ==
    [ visible |-> FALSE, foreground |-> FALSE, was_foreground |-> FALSE,
      resizing |-> FALSE, close_requested |-> FALSE,
      change_surface |-> "DO_NOTHING",
      window_x |-> 0, window_y |-> 0, window_width |-> 0, window_height |-> 0,
      surface |-> "none",            \* EGLSurface surface: none or live
      dispmanElement |-> FALSE,      \* the overlay element is on the display
      background_surface |-> FALSE,  \* SDL_Surface* background_surface # nullptr
      current |-> FALSE,             \* the context is current on surface
      backend |-> "none",            \* what surface was created as
      destination |-> <<>>,          \* VC_RECT_T destination of the element
      pbuffer_size |-> <<>>,         \* EGL_WIDTH, EGL_HEIGHT of the pbuffer
      display_width |-> FloatDiv(0, actual_tile_size),   \* of its MapViewer
      display_height |-> FloatDiv(0, actual_tile_size),
      failed |-> "no",               \* history: the last build / teardown failed
      presented |-> "nothing",       \* history: what the last swap_buffers did
      leaked |-> {},                 \* history: handles overwritten while live
      moved |-> FALSE,               \* history: os moved it since the last build
      attempts |-> 0,                \* history: init_surface calls, this update()
      marks |-> 0,                   \* history: events that set DO_INIT, this update()
      resized |-> FALSE,             \* history: a resize event, this update()
      broadcasts |-> 0,              \* history: resize broadcasts, this update()
      cleaned |-> FALSE,             \* history: input_manager->clean(), this update()
      callbacks |-> 0 ]              \* history: run_callbacks() calls, this update()

\* The last call (or the event update() polled last): its name, its window,
\* and whether it ended in an InitException. to: the windows whose input
\* manager was handed the event. null: it went through a null GameWindow*.
Called(op, w, thrown) == [op |-> op, w |-> w, thrown |-> thrown, to |-> {}, null |-> FALSE]

\* An event update() polled, and the input managers handle_event ran on.
Polled(ev, w, to) == [op |-> ev, w |-> w, thrown |-> FALSE, to |-> to, null |-> FALSE]

WinInit ==
    /\ windows = {}
    /\ null_windows = {}
    /\ sdl_up = FALSE
    /\ gw = << >>
    /\ os_geom = [w \in WinIds |-> <<0, 0, 2, 2>>]
    /\ focused_window = 0
    /\ upd_pc = "idle"
    /\ upd_todo = {}
    /\ polled = 0
    /\ close_all = FALSE
    /\ next_window_id = 1
    /\ inputs = 0
    /\ call = Called("none", 0, FALSE)

\* What the EGL / SDL calls of one build attempt answer.
Outcomes == [destroy_ok : BOOLEAN, create_ok : BOOLEAN, rgb_ok : BOOLEAN, current_ok : BOOLEAN]

AllOk == [destroy_ok |-> TRUE, create_ok |-> TRUE, rgb_ok |-> TRUE, current_ok |-> TRUE]

\* o answers only the calls init_surface makes on W: no eglDestroySurface on
\* a window that is not visible, no call after the one that throws, no
\* SDL_CreateRGBSurface for a Direct surface.
Asked(W, o) ==
    /\ ~W.visible => o.destroy_ok
    /\ ~o.destroy_ok => o.create_ok /\ o.rgb_ok /\ o.current_ok
    /\ ~o.create_ok => o.rgb_ok /\ o.current_ok
    /\ W.foreground => o.rgb_ok

\* The result of a call that may throw InitException.
Done(W) == [w |-> W, thrown |-> FALSE]
Thrown(W) == [w |-> W, thrown |-> TRUE]

\* The backend calls deinit_surface issues, in order.
deinit_surface_calls(W) ==
    IF W.visible
    THEN (IF W.was_foreground THEN << "element_remove" >>
          ELSE IF W.background_surface THEN << "free_pixel_buffer" >>
          ELSE << >>)
         \o << "disconnect_context", "destroy_surface" >>
    ELSE << >>

\* void GameWindow::deinit_surface()
deinit_surface(W, o) ==
    IF W.visible
    THEN LET W1 == IF W.was_foreground
                     THEN [W EXCEPT !.dispmanElement = FALSE]
                     ELSE [W EXCEPT !.background_surface = FALSE]
             W2 == [W1 EXCEPT !.current = FALSE]
         IN  IF o.destroy_ok
               THEN Done([W2 EXCEPT !.surface = "none", !.backend = "none",
                                    !.visible = FALSE,
                                    !.change_surface = "DO_NOTHING"])
               ELSE Thrown([W2 EXCEPT !.failed = "teardown"])
    ELSE Done([W EXCEPT !.visible = FALSE, !.change_surface = "DO_NOTHING"])

\* if (foreground): which backend this build uses.
direct_render_stale(W) == W.was_foreground
direct_render(W) == W.foreground

\* window_x = x; window_y = y; window_width = w; window_height = h;
store_geometry_skip(W, g) == W
store_geometry(W, g) ==
    [W EXCEPT !.window_x = g[1], !.window_y = g[2],
              !.window_width = g[3], !.window_height = g[4]]

\* void GameWindow::init_surface(int x, int y, int w, int h)
init_surface(W, g, o) ==
    LET d == deinit_surface(W, o) IN
    IF d.thrown THEN d
    ELSE
    LET W1 == [d.w EXCEPT !.change_surface = "DO_INIT"]
        direct == direct_render(W1)
        \* the overlay element, for the window surface
        W2 == IF direct
                THEN [W1 EXCEPT !.dispmanElement = TRUE,
                                !.destination = <<g[1] + overscan_left, g[2] + overscan_top, g[3], g[4]>>,
                                !.leaked = IF W1.dispmanElement THEN @ \cup {"element"} ELSE @]
                ELSE W1
    IN  IF ~o.create_ok THEN Thrown([W2 EXCEPT !.failed = "build"])
        ELSE
        \* surface = new_surface, and the blit surface of a pbuffer
        LET L3 == (IF W2.surface = "live" THEN {"surface"} ELSE {})
                  \cup (IF ~direct /\ W2.background_surface THEN {"pixel_buffer"} ELSE {})
            W3 == IF direct
                    THEN [W2 EXCEPT !.surface = "live", !.backend = "Direct",
                                    !.leaked = @ \cup L3]
                    ELSE [W2 EXCEPT !.surface = "live", !.backend = "Offscreen",
                                    !.pbuffer_size = <<g[3], g[4]>>,
                                    !.background_surface = o.rgb_ok,
                                    !.leaked = @ \cup L3]
        IN  IF ~o.current_ok THEN Thrown([W3 EXCEPT !.failed = "build"])
            ELSE Done(store_geometry([W3 EXCEPT !.current = TRUE,
                                                !.was_foreground = W3.foreground,
                                                !.visible = TRUE,
                                                !.change_surface = "DO_NOTHING",
                                                !.failed = "no",
                                                !.moved = FALSE], g))

\* void MapViewer::resize(), the viewer of window W.
resize(W) ==
    [W EXCEPT !.display_width = FloatDiv(W.window_width, actual_tile_size),
              !.display_height = FloatDiv(W.window_height, actual_tile_size)]

\* One more call or event from outside; at most MaxInputs of them in a run.
Input ==
    /\ inputs < MaxInputs
    /\ inputs' = inputs + 1

\* windows.size() == 0
index_empty == windows = {} /\ null_windows = {}

\* The constructor with windows[id] = this placed before init_gl().
construct_register_early(w, g, how, o) ==
    /\ upd_pc = "idle"
    /\ w = next_window_id
    /\ w \in WinIds
    /\ how # "surface" => o = AllOk
    /\ Input
    /\ windows' = windows \cup {w}
    /\ gw' = MapStore(gw, w, [NoWindow EXCEPT !.foreground = TRUE])
    /\ call' = Called("construct", w, how # "surface")
    /\ next_window_id' = next_window_id + 1
    /\ UNCHANGED <<sdl_up, os_geom, focused_window, upd_pc, upd_todo, polled, close_all, null_windows>>

\* GameWindow::GameWindow(width, height, fullscreen). how: which step fails.
construct(w, g, how, o) ==
    /\ upd_pc = "idle"
    /\ w = next_window_id
    /\ w \in WinIds
    /\ how = "sdl" => index_empty
    /\ IF how = "surface" THEN o.destroy_ok /\ o.rgb_ok /\ (o.create_ok \/ o.current_ok)
                          ELSE o = AllOk
    /\ Input
    /\ LET W0 == [NoWindow EXCEPT !.foreground = TRUE, !.was_foreground = TRUE,
                                  !.window_width = g[3], !.window_height = g[4]]
           b == init_surface(W0, g, o)
       IN  IF how = "sdl"
             THEN \* init_sdl throws
                  /\ call' = Called("construct", w, TRUE)
                  /\ UNCHANGED <<windows, sdl_up, gw, os_geom, next_window_id>>
           ELSE IF how = "window"
             THEN \* SDL_CreateWindow fails: deinit_sdl(), throw
                  /\ sdl_up' = FALSE
                  /\ call' = Called("construct", w, TRUE)
                  /\ UNCHANGED <<windows, gw, os_geom, next_window_id>>
           ELSE IF how = "gl" \/ b.thrown
             THEN \* init_gl throws: SDL_DestroyWindow, deinit_sdl if first
                  /\ sdl_up' = IF index_empty THEN FALSE ELSE sdl_up
                  /\ call' = Called("construct", w, TRUE)
                  /\ UNCHANGED <<windows, gw, os_geom, next_window_id>>
           ELSE /\ sdl_up' = IF index_empty THEN TRUE ELSE sdl_up
                /\ windows' = windows \cup {w}
                /\ gw' = MapStore(gw, w, resize(b.w))
                /\ os_geom' = [os_geom EXCEPT ![w] = g]
                /\ next_window_id' = next_window_id + 1
                /\ call' = Called("construct", w, FALSE)
    /\ UNCHANGED <<focused_window, upd_pc, upd_todo, polled, close_all, null_windows>>

\* GameWindow::~GameWindow(). An InitException leaving deinit_surface leaves a
\* destructor: std::terminate, the process ends.
destroy(w, o) ==
    /\ upd_pc = "idle"
    /\ w \in windows
    /\ o.create_ok /\ o.rgb_ok /\ o.current_ok
    /\ ~gw[w].visible => o.destroy_ok
    /\ Input
    /\ LET d == deinit_surface(gw[w], o) IN
         IF d.thrown
           THEN /\ upd_pc' = "terminated"
                /\ call' = Called("destroy", w, TRUE)
                /\ UNCHANGED <<windows, sdl_up, gw, os_geom>>
           ELSE /\ windows' = windows \ {w}
                /\ sdl_up' = IF windows \ {w} = {} /\ null_windows = {} THEN FALSE ELSE sdl_up
                /\ gw' = MapErase(gw, w)
                /\ os_geom' = [os_geom EXCEPT ![w] = <<0, 0, 2, 2>>]
                /\ call' = Called("destroy", w, FALSE)
                /\ UNCHANGED upd_pc
    /\ UNCHANGED <<focused_window, upd_todo, polled, close_all, null_windows, next_window_id>>

\* The user or the window manager moves / resizes the window.
os_change(w, g) ==
    /\ upd_pc \in {"idle", "poll"}
    /\ w \in windows
    /\ g # os_geom[w]
    /\ Input
    /\ os_geom' = [os_geom EXCEPT ![w] = g]
    /\ gw' = [gw EXCEPT ![w].moved = @ \/ g[1] # os_geom[w][1] \/ g[2] # os_geom[w][2]]
    /\ call' = Called("os_change", w, FALSE)
    /\ UNCHANGED <<windows, sdl_up, focused_window, upd_pc, upd_todo, polled,
                   close_all, null_windows, next_window_id>>

\* request_close that tears the surface down at once.
request_close_eager(W) == [W EXCEPT !.close_requested = TRUE, !.visible = FALSE]

\* void GameWindow::request_close()
request_close(W) == [W EXCEPT !.close_requested = TRUE]

\* void GameWindow::cancel_close()
cancel_close(W) == [W EXCEPT !.close_requested = FALSE]

\* bool GameWindow::check_close()
check_close(W) == W.close_requested

\* The owner of window w calls request_close / cancel_close.
call_request_close(w) ==
    /\ upd_pc = "idle"
    /\ w \in windows
    /\ Input
    /\ gw' = [gw EXCEPT ![w] = request_close(gw[w])]
    /\ call' = Called("request_close", w, FALSE)
    /\ UNCHANGED <<windows, sdl_up, os_geom, focused_window, upd_pc, upd_todo,
                   polled, close_all, null_windows, next_window_id>>

call_cancel_close(w) ==
    /\ upd_pc = "idle"
    /\ w \in windows
    /\ Input
    /\ gw' = [gw EXCEPT ![w] = cancel_close(gw[w])]
    /\ call' = Called("cancel_close", w, FALSE)
    /\ UNCHANGED <<windows, sdl_up, os_geom, focused_window, upd_pc, upd_todo,
                   polled, close_all, null_windows, next_window_id>>

\* Where update() is after a statement that goes through a GameWindow*: on
\* a null pointer (null) the access is undefined, the process dies there or
\* goes on to at.
ThroughNull(null, at) == IF null THEN {at, "terminated"} ELSE {at}

\* update(): input_manager->clean() of every window, then the poll loop.
update_begin ==
    /\ upd_pc = "idle"
    /\ windows # {}
    /\ upd_pc' \in ThroughNull(null_windows # {}, "poll")
    /\ gw' = [w \in windows |-> [gw[w] EXCEPT !.presented = "nothing", !.cleaned = TRUE]]
    /\ call' = Called("update", 0, FALSE)
    /\ UNCHANGED <<windows, sdl_up, os_geom, focused_window, upd_todo, polled,
                   close_all, null_windows, next_window_id, inputs>>

WindowEvents == {"CLOSE", "RESIZED", "MOVED", "FOCUS_GAINED", "FOCUS_LOST", "OTHER"}

\* The window events after which update() rebuilds the surface.
StaleMarking == {"RESIZED", "MOVED", "FOCUS_GAINED", "FOCUS_LOST"}

\* The switch rebuilding the surface as soon as the event is polled.
on_window_event_eager(W, ev) ==
    IF ev \in StaleMarking
      THEN [W EXCEPT !.attempts = @ + 1, !.change_surface = "DO_INIT",
                     !.resizing = (ev = "RESIZED") \/ @,
                     !.foreground = IF ev = "FOCUS_GAINED" THEN TRUE
                                    ELSE IF ev = "FOCUS_LOST" THEN FALSE ELSE @]
      ELSE W

\* The switch on event.window.event, for the event's window.
on_window_event(W, ev) ==
    CASE ev = "CLOSE" -> request_close(W)
      [] ev = "RESIZED" -> [W EXCEPT !.resizing = TRUE, !.change_surface = "DO_INIT"]
      [] ev = "MOVED" -> [W EXCEPT !.change_surface = "DO_INIT"]
      [] ev = "FOCUS_GAINED" -> [W EXCEPT !.foreground = TRUE, !.change_surface = "DO_INIT"]
      [] ev = "FOCUS_LOST" -> [W EXCEPT !.foreground = FALSE, !.change_surface = "DO_INIT"]
      [] OTHER -> W

\* if (focused_window) focused_window->input_manager->handle_event(&event):
\* the input managers handed an event of window w (0: not a window event)
\* when fw is the focused window after the event's own switch.
handle_event_of_event_window(fw, w) == IF w # 0 THEN {w} ELSE {}
handle_event(fw, w) == IF fw # 0 THEN {fw} ELSE {}

\* Where the poll loop is after handle_event through fw: a focused_window
\* left pointing at a destroyed GameWindow is a use after free, the process
\* dies there or goes on.
AfterHandle(fw) ==
    IF fw # 0 /\ fw \notin windows THEN {"poll", "terminated"} ELSE {"poll"}

\* focused_window after the switch on a window event of w.
focus_update(fw, w, ev) ==
    IF ev \in {"RESIZED", "MOVED", "FOCUS_GAINED"} THEN w
    ELSE IF ev = "FOCUS_LOST" /\ fw = w THEN 0
    ELSE fw

\* One iteration of while (SDL_PollEvent(&event)) for a window event.
update_poll_window(w, ev) ==
    /\ upd_pc = "poll"
    /\ polled < MaxEvents
    /\ w \in windows
    /\ Input
    /\ polled' = polled + 1
    /\ gw' = [gw EXCEPT ![w] =
                [on_window_event(gw[w], ev) EXCEPT
                    !.marks = IF ev \in StaleMarking THEN @ + 1 ELSE @,
                    !.resized = @ \/ ev = "RESIZED"]]
    /\ focused_window' = focus_update(focused_window, w, ev)
    /\ call' = Polled(ev, w, handle_event(focused_window', w))
    /\ upd_pc' \in AfterHandle(focused_window')
    /\ UNCHANGED <<windows, sdl_up, os_geom, upd_todo, close_all, null_windows, next_window_id>>

\* window = windows[event.window.windowID] for an id the index does not
\* hold: std::map::operator[] inserts the key with a value-initialised
\* (null) pointer and returns it.
index_lookup(nulls, w) == nulls \cup {w}

\* The cases of the switch that write or call through window.
DerefsWindow == {"CLOSE", "RESIZED", "MOVED", "FOCUS_GAINED", "FOCUS_LOST"}

\* One iteration of the poll loop for a window event whose window id is not
\* in the index: an event still queued for a window that has been destroyed.
update_poll_stale(w, ev) ==
    /\ upd_pc = "poll"
    /\ polled < MaxEvents
    /\ w \in 1..(next_window_id - 1)
    /\ w \notin windows
    /\ Input
    /\ polled' = polled + 1
    /\ null_windows' = index_lookup(null_windows, w)
    /\ focused_window' = focus_update(focused_window, 0, ev)
    /\ call' = [Polled(ev, w, handle_event(focused_window', w))
                  EXCEPT !.null = ev \in DerefsWindow]
    /\ upd_pc' \in ThroughNull(ev \in DerefsWindow, "poll") \cup AfterHandle(focused_window')
    /\ UNCHANGED <<windows, sdl_up, gw, os_geom, upd_todo, close_all, next_window_id>>

\* One iteration of the poll loop for SDL_QUIT.
update_poll_quit ==
    /\ upd_pc = "poll"
    /\ polled < MaxEvents
    /\ Input
    /\ polled' = polled + 1
    /\ close_all' = TRUE
    /\ call' = Polled("QUIT", 0, handle_event(focused_window, 0))
    /\ upd_pc' \in AfterHandle(focused_window)
    /\ UNCHANGED <<windows, null_windows, sdl_up, gw, os_geom, focused_window, upd_todo,
                   next_window_id>>

\* SDL_PollEvent returns 0: the second loop starts.
update_end_poll ==
    /\ upd_pc = "poll"
    /\ upd_pc' = "post"
    /\ upd_todo' = windows \cup null_windows
    /\ polled' = 0
    /\ call' = Called("update", 0, FALSE)
    /\ UNCHANGED <<windows, sdl_up, gw, os_geom, focused_window, close_all, null_windows,
                   next_window_id, inputs>>

Min(S) == CHOOSE x \in S : \A y \in S : x <= y

\* if ((window_x != x || window_y != y) && visible) change_surface = DO_INIT
position_check(W, g) ==
    IF (W.window_x # g[1] \/ W.window_y # g[2]) /\ W.visible
      THEN [W EXCEPT !.change_surface = "DO_INIT"]
      ELSE W

\* The second loop's body with the resize broadcast ahead of the rebuild.
post_window_broadcast_first(W, g, o, all) ==
    LET W1 == position_check(W, g)
        W2 == IF W1.resizing
                THEN [resize(W1) EXCEPT !.resizing = FALSE, !.broadcasts = @ + 1]
                ELSE W1
        W3 == IF W2.change_surface = "DO_INIT"
                THEN [init_surface(W2, g, o).w EXCEPT !.attempts = @ + 1]
                ELSE W2
        W4 == [W3 EXCEPT !.callbacks = @ + 1]
    IN  IF all THEN request_close(W4) ELSE W4

\* The second loop's body without the close_all test at its end.
post_window_quit_dropped(W, g, o, all) ==
    LET W1 == position_check(W, g)
        W2 == IF W1.change_surface = "DO_INIT"
                THEN [init_surface(W1, g, o).w EXCEPT !.attempts = @ + 1]
                ELSE W1
        W3 == IF W2.resizing
                THEN [resize(W2) EXCEPT !.resizing = FALSE, !.broadcasts = @ + 1]
                ELSE W2
    IN  [W3 EXCEPT !.callbacks = @ + 1]

\* The body of the second loop of update() for one window.
post_window(W, g, o, all) ==
    LET W1 == position_check(W, g)
        W2 == IF W1.change_surface = "DO_INIT"
                THEN \* a throw is caught and logged
                     [init_surface(W1, g, o).w EXCEPT !.attempts = @ + 1]
                ELSE W1
        W3 == IF W2.resizing
                THEN [resize(W2) EXCEPT !.resizing = FALSE, !.broadcasts = @ + 1]
                ELSE W2
        W4 == [W3 EXCEPT !.callbacks = @ + 1]
    IN  IF all THEN request_close(W4) ELSE W4

\* Whether the second loop will call init_surface on W.
WillInit(W, g) == position_check(W, g).change_surface = "DO_INIT"

update_post(o) ==
    /\ upd_pc = "post"
    /\ upd_todo # {}
    /\ LET w == Min(upd_todo) IN
        /\ w \in windows
        /\ IF o = AllOk
             THEN inputs' = inputs
             ELSE /\ WillInit(gw[w], os_geom[w])
                  /\ Asked(gw[w], o)
                  /\ Input
        /\ gw' = [gw EXCEPT ![w] = post_window(gw[w], os_geom[w], o, close_all)]
        /\ upd_todo' = upd_todo \ {w}
        /\ call' = Called("update_post", w, FALSE)
    /\ UNCHANGED <<windows, sdl_up, os_geom, focused_window, upd_pc, polled, close_all, null_windows,
                   next_window_id>>

\* The second loop reaches an entry of the index that holds nullptr:
\* window->window_x, window->change_surface ... through a null pointer.
update_post_null ==
    /\ upd_pc = "post"
    /\ upd_todo # {}
    /\ Min(upd_todo) \in null_windows
    /\ upd_todo' = upd_todo \ {Min(upd_todo)}
    /\ upd_pc' \in ThroughNull(TRUE, "post")
    /\ call' = [Called("update_post", Min(upd_todo), FALSE) EXCEPT !.null = TRUE]
    /\ UNCHANGED <<windows, null_windows, sdl_up, gw, os_geom, focused_window, polled,
                   close_all, next_window_id, inputs>>

update_end ==
    /\ upd_pc = "post"
    /\ upd_todo = {}
    /\ upd_pc' = "idle"
    /\ close_all' = FALSE
    /\ gw' = [w \in windows |-> [gw[w] EXCEPT !.attempts = 0, !.marks = 0,
                                              !.resized = FALSE, !.broadcasts = 0,
                                              !.cleaned = FALSE, !.callbacks = 0]]
    /\ call' = Called("update", 0, FALSE)
    /\ UNCHANGED <<windows, null_windows, sdl_up, os_geom, focused_window, upd_todo, polled,
                   next_window_id, inputs>>

\* What swap_buffers does to W's surface: nothing when not visible, else it
\* presents the surface picked by foreground.
swap_result(W) ==
    IF ~W.visible THEN "nothing"
    ELSE IF W.foreground
      THEN IF W.surface = "live" /\ W.dispmanElement /\ W.was_foreground
             THEN "swapped" ELSE "swapped_unbuilt"
      ELSE IF ~W.background_surface THEN "null_deref"
           ELSE IF W.surface = "live" /\ ~W.was_foreground
             THEN "blitted" ELSE "blitted_unbuilt"

\* void GameWindow::swap_buffers()
swap_buffers(w) ==
    /\ upd_pc = "idle"
    /\ w \in windows
    /\ Input
    /\ gw' = [gw EXCEPT ![w].presented = swap_result(gw[w])]
    /\ call' = Called("swap_buffers", w, FALSE)
    /\ UNCHANGED <<windows, sdl_up, os_geom, focused_window, upd_pc, upd_todo, polled,
                   close_all, null_windows, next_window_id>>

\* void GameWindow::use_context()
use_context(w) ==
    /\ upd_pc = "idle"
    /\ w \in windows
    /\ Input
    /\ gw' = [gw EXCEPT ![w].current = IF gw[w].visible THEN gw[w].surface = "live" ELSE @]
    /\ call' = Called("use_context", w, FALSE)
    /\ UNCHANGED <<windows, sdl_up, os_geom, focused_window, upd_pc, upd_todo, polled,
                   close_all, null_windows, next_window_id>>

\* void GameWindow::disable_context()
disable_context(w) ==
    /\ upd_pc = "idle"
    /\ w \in windows
    /\ Input
    /\ gw' = [gw EXCEPT ![w].current = IF gw[w].visible THEN FALSE ELSE @]
    /\ call' = Called("disable_context", w, FALSE)
    /\ UNCHANGED <<windows, sdl_up, os_geom, focused_window, upd_pc, upd_todo, polled,
                   close_all, null_windows, next_window_id>>

\* ------------------------------------------------------ Shader::ShaderCache
\* Shader objects one run constructs, and shared_ptr owners one Shader has.
MaxShaders == 3
MaxOwners == 2
\* The program names the renderable components ask for.
ShaderNames == {"tile_shader", "sprite_shader", "gui_shader"}

ShaderCall(op, name, ret, thrown, fatal) ==
    [op |-> op, name |-> name, ret |-> ret, thrown |-> thrown, fatal |-> fatal]

ShdInit ==
    /\ shaders = << >>
    /\ shader_objs = << >>
    /\ scall = ShaderCall("none", "", NULL, FALSE, FALSE)

\* The member program_name after Shader::Shader(program_name): the
\* constructor passes the two file names on to Shader(vs, fs) and neither
\* constructor assigns the member, which stays the empty string.
stored_program_name(program_name) == ""

\* The weak_ptr stored under a name has a live Shader behind it.
Live(o) == shader_objs[o].owners > 0

\* std::shared_ptr<Shader> ShaderCache::get_shader(program_name). load_ok:
\* the shader files load, compile and link.
get_shader(program_name, load_ok) ==
    /\ ~scall.fatal
    /\ IF program_name \notin DOMAIN shaders
         THEN \* first-time load
              IF load_ok
                THEN /\ Len(shader_objs) < MaxShaders
                     /\ shader_objs' = Append(shader_objs,
                           [program_name |-> stored_program_name(program_name), owners |-> 1])
                     /\ shaders' = MapStore(shaders, program_name, Len(shader_objs) + 1)
                     /\ scall' = ShaderCall("get_shader", program_name,
                                            Len(shader_objs) + 1, FALSE, FALSE)
                ELSE \* Shader::LoadException, logged and rethrown
                     /\ scall' = ShaderCall("get_shader", program_name, NULL, TRUE, FALSE)
                     /\ UNCHANGED <<shaders, shader_objs>>
         ELSE \* shaders.find(program_name)->second.lock()
              LET o == shaders[program_name] IN
              IF Live(o)
                THEN /\ load_ok
                     /\ shader_objs[o].owners < MaxOwners
                     /\ shader_objs' = [shader_objs EXCEPT ![o].owners = @ + 1]
                     /\ scall' = ShaderCall("get_shader", program_name, o, FALSE, FALSE)
                     /\ UNCHANGED shaders
                ELSE \* lock() gives the empty pointer; shader->cache = this
                     \* writes through it: the process dies or goes on and
                     \* hands the empty pointer back
                     /\ load_ok
                     /\ \E fatal \in BOOLEAN :
                           scall' = ShaderCall("get_shader", program_name, NULL, FALSE, fatal)
                     /\ UNCHANGED <<shaders, shader_objs>>

\* void ShaderCache::remove_shader(program_name)
remove_shader(cache, program_name) ==
    IF program_name \in DOMAIN cache THEN MapErase(cache, program_name) ELSE cache

\* An owner of Shader o drops its shared_ptr; the last one runs
\* Shader::~Shader, which calls cache->remove_shader(program_name) with the
\* member (cache was set by get_shader).
release_shared(o) ==
    /\ ~scall.fatal
    /\ o \in DOMAIN shader_objs
    /\ Live(o)
    /\ shader_objs' = [shader_objs EXCEPT ![o].owners = @ - 1]
    /\ shaders' = IF shader_objs[o].owners = 1
                    THEN remove_shader(shaders, shader_objs[o].program_name)
                    ELSE shaders
    /\ scall' = ShaderCall("release", shader_objs[o].program_name, o, FALSE, FALSE)

Init == RegInit /\ ThrInit /\ RenInit /\ WinInit /\ ViewInit /\ ShdInit

Next ==
    \/ \E e \in Entities : get_next_id(e) /\ UNCHANGED <<thrVars, renVars, winVars, viewVars, shdVars>>
    \/ \E p \in Entities \cup {NULL} : add_object(p) /\ UNCHANGED <<thrVars, renVars, winVars, viewVars, shdVars>>
    \/ \E k \in IdArgs : remove_object(k) /\ UNCHANGED <<thrVars, renVars, winVars, viewVars, shdVars>>
    \/ \E e \in Entities, v \in IdArgs : set_id(e, v) /\ UNCHANGED <<thrVars, renVars, winVars, viewVars, shdVars>>

Spec == Init /\ [][Next]_vars

NextThreads ==
    \E t \in Threads :
        \/ t_call(t) /\ UNCHANGED <<renVars, winVars, viewVars, shdVars>>
        \/ gni_lock(t) /\ UNCHANGED <<renVars, winVars, viewVars, shdVars>>
        \/ gni_set_id(t) /\ UNCHANGED <<renVars, winVars, viewVars, shdVars>>
        \/ gni_read(t) /\ UNCHANGED <<renVars, winVars, viewVars, shdVars>>
        \/ gni_write(t) /\ UNCHANGED <<renVars, winVars, viewVars, shdVars>>
        \/ gni_unlock(t) /\ UNCHANGED <<renVars, winVars, viewVars, shdVars>>
        \/ t_add_valid(t) /\ UNCHANGED <<renVars, winVars, viewVars, shdVars>>
        \/ t_add_store(t) /\ UNCHANGED <<renVars, winVars, viewVars, shdVars>>
        \/ t_rm_count(t) /\ UNCHANGED <<renVars, winVars, viewVars, shdVars>>
        \/ t_rm_erase(t) /\ UNCHANGED <<renVars, winVars, viewVars, shdVars>>
        \/ t_read_only(t) /\ UNCHANGED <<renVars, winVars, viewVars, shdVars>>

SpecThreads == Init /\ [][NextThreads]_vars

\* One more call from the game; at most MaxCalls of them in a run.
GameCall == inputs < MaxCalls /\ inputs' = inputs + 1
\* The Object instance the next make_shared constructs.
Fresh == {e \in Entities : obj_id[e] = 0 /\ \A d \in Entities : obj_id[d] = 0 => e <= d}
\* The call is not render(): no frame was drawn by it.
NoFrame == frame' = << >> /\ UNCHANGED <<map_sprites, map_objects, no_shader, kind>>

NextRender ==
    \/ challenge_map = NULL /\ \E mp \in Maps, e \in Fresh, b \in BOOLEAN, p \in Positions :
          Challenge_ctor(mp, e, b, p) /\ GameCall /\ UNCHANGED <<thrVars, winRest, shdVars>>
    \/ challenge_map # NULL /\ \E e \in Fresh, b \in BOOLEAN, p \in Positions :
          make_sprite(e, b, p) /\ GameCall /\ UNCHANGED <<thrVars, winRest, shdVars>>
    \/ challenge_map # NULL /\ \E e \in Fresh, b \in BOOLEAN :
          make_map_object(e, b) /\ GameCall /\ UNCHANGED <<thrVars, winRest, shdVars>>
    \/ challenge_map # NULL /\ Challenge_dtor /\ GameCall /\ UNCHANGED <<thrVars, winRest, shdVars>>
    \/ Alive /\ \E e \in Fresh : register_object(e) /\ GameCall /\ UNCHANGED <<thrVars, winRest, shdVars>>
    \/ Alive /\ \E k \in IdArgs :
          /\ remove_object(k) /\ GameCall /\ NoFrame
          /\ vcall' = ViewCall("remove_object", k, FALSE)
          /\ UNCHANGED <<thrVars, winRest, viewRest, shdVars>>
    \/ \E mp \in Maps \cup {NULL} :
          set_map(mp) /\ GameCall /\ NoFrame /\ UNCHANGED <<regVars, thrVars, winRest, shdVars>>
    \/ \E k \in IdArgs :
          set_map_focus_object(k) /\ GameCall /\ NoFrame /\ UNCHANGED <<regVars, thrVars, winRest, shdVars>>
    \/ call_refocus_map /\ GameCall /\ NoFrame /\ UNCHANGED <<regVars, thrVars, winRest, shdVars>>
    \/ \E size \in WindowSizes :
          MapViewer_resize(size) /\ GameCall /\ NoFrame /\ UNCHANGED <<regVars, thrVars, winRest, shdVars>>
    \/ \E e \in Entities, p \in Positions :
          sprite_move(e, p) /\ GameCall /\ NoFrame /\ UNCHANGED <<regVars, thrVars, winRest, shdVars>>
    \/ render /\ GameCall /\ UNCHANGED <<thrVars, winRest, shdVars>>

SpecRender == Init /\ [][NextRender]_vars

NextWindow ==
    \/ upd_pc = "idle" /\ \E w \in {next_window_id} \cap WinIds, g \in Geoms, o \in Outcomes,
          how \in {"sdl", "window", "gl", "surface"} : construct(w, g, how, o) /\ UNCHANGED <<regVars, thrVars, renVars, viewVars, shdVars>>
    \/ upd_pc = "idle" /\ \E w \in windows, o \in Outcomes : destroy(w, o) /\ UNCHANGED <<regVars, thrVars, renVars, viewVars, shdVars>>
    \/ \E w \in windows, g \in Geoms : os_change(w, g) /\ UNCHANGED <<regVars, thrVars, renVars, viewVars, shdVars>>
    \/ upd_pc = "idle" /\ \E w \in windows : call_request_close(w) /\ UNCHANGED <<regVars, thrVars, renVars, viewVars, shdVars>>
    \/ upd_pc = "idle" /\ \E w \in windows : call_cancel_close(w) /\ UNCHANGED <<regVars, thrVars, renVars, viewVars, shdVars>>
    \/ update_begin /\ UNCHANGED <<regVars, thrVars, renVars, viewVars, shdVars>>
    \/ upd_pc = "poll" /\ \E w \in windows, ev \in WindowEvents : update_poll_window(w, ev) /\ UNCHANGED <<regVars, thrVars, renVars, viewVars, shdVars>>
    \/ upd_pc = "poll" /\ \E w \in WinIds \ windows, ev \in WindowEvents : update_poll_stale(w, ev) /\ UNCHANGED <<regVars, thrVars, renVars, viewVars, shdVars>>
    \/ update_poll_quit /\ UNCHANGED <<regVars, thrVars, renVars, viewVars, shdVars>>
    \/ update_end_poll /\ UNCHANGED <<regVars, thrVars, renVars, viewVars, shdVars>>
    \/ upd_pc = "post" /\ \E o \in Outcomes : update_post(o) /\ UNCHANGED <<regVars, thrVars, renVars, viewVars, shdVars>>
    \/ update_post_null /\ UNCHANGED <<regVars, thrVars, renVars, viewVars, shdVars>>
    \/ update_end /\ UNCHANGED <<regVars, thrVars, renVars, viewVars, shdVars>>
    \/ upd_pc = "idle" /\ \E w \in windows : swap_buffers(w) /\ UNCHANGED <<regVars, thrVars, renVars, viewVars, shdVars>>
    \/ upd_pc = "idle" /\ \E w \in windows : use_context(w) /\ UNCHANGED <<regVars, thrVars, renVars, viewVars, shdVars>>
    \/ upd_pc = "idle" /\ \E w \in windows : disable_context(w) /\ UNCHANGED <<regVars, thrVars, renVars, viewVars, shdVars>>

SpecWindow == Init /\ [][NextWindow]_vars

NextCentre ==
    \/ centre.applied = 0 /\ \E point \in Points, length \in Lengths, bound \in Bounds :
          centre_apply(point, length, bound) /\ UNCHANGED <<regVars, thrVars, renVars, winVars, shdVars>>
    \/ centre_reapply /\ UNCHANGED <<regVars, thrVars, renVars, winVars, shdVars>>

SpecCentre == Init /\ [][NextCentre]_vars

NextShader ==
    \/ \E program_name \in ShaderNames, load_ok \in BOOLEAN :
          get_shader(program_name, load_ok) /\ UNCHANGED <<regVars, thrVars, renVars, winVars, viewVars>>
    \/ \E o \in 1..MaxShaders :
          release_shared(o) /\ UNCHANGED <<regVars, thrVars, renVars, winVars, viewVars>>

SpecShader == Init /\ [][NextShader]_vars

\* ------------------------------------------------------------------ claims
\* C1: starting from a fresh registry the values get_next_id returns are
\* 1, 2, ..., N in call order, and a call leaves the passed object's id equal
\* to the value it returned.
C1_SuccessiveIds ==
    /\ [](\A i \in 1..Len(returned) : returned[i] = i)
    /\ [][last'.op = "get_next_id" =>
            /\ Len(returned') = Len(returned) + 1
            /\ last'.ret = returned'[Len(returned')]
            /\ obj_id'[last'.arg] = last'.ret]_vars
C1_Witness ==
    /\ Len(returned) = MaxId
    /\ last.op = "get_next_id"
    /\ last.ret = MaxId

\* C2: for any interleaving of threads calling get_next_id, no two calls
\* return the same id, and when a call has returned the caller's object
\* carries the id that call returned.
C2_ConcurrentIdsUnique ==
    /\ \A i, j \in 1..Len(returned) : i # j => returned[i] # returned[j]
    /\ \A t \in Threads :
          (pc[t] \notin CriticalPcs /\ t_ret[t] # 0) => obj_id[t] = t_ret[t]
C2_Witness ==
    \E a, b \in Threads :
        /\ a # b
        /\ pc[a] = "gni_lock"
        /\ pc[b] = "gni_unlock"
        /\ object_manager_mutex = b
        /\ obj_id[b] = t_tmp[b]

\* C3: every key of the object map lies in (0, next_object_id), next_object_id
\* never decreases, and no id is returned twice by get_next_id, also after the
\* id's entry was removed.
C3_IdsNeverReused ==
    /\ [](\A k \in DOMAIN objects : 0 < k /\ k < next_object_id)
    /\ [](\A i, j \in 1..Len(returned) : i # j => returned[i] # returned[j])
    /\ [][next_object_id' >= next_object_id]_vars
C3_Witness ==
    /\ last.op = "get_next_id"
    /\ \E k \in removed : k < last.ret /\ k \notin DOMAIN objects

\* C4: add_object returns false and changes neither the map nor
\* next_object_id when the object is null or its id is outside
\* (0, next_object_id); otherwise it stores the object under its id and
\* returns true.
C4_AddValidates ==
    [][last'.op = "add_object" =>
        IF \/ last'.arg = NULL
           \/ ~(0 < obj_id[last'.arg] /\ obj_id[last'.arg] < next_object_id)
        THEN /\ ~last'.ok
             /\ objects' = objects
             /\ next_object_id' = next_object_id
        ELSE /\ last'.ok
             /\ obj_id[last'.arg] \in DOMAIN objects'
             /\ objects'[obj_id[last'.arg]] = last'.arg
             /\ next_object_id' = next_object_id]_vars
C4_Witness ==
    /\ last.op = "add_object"
    /\ ~last.ok
    /\ last.arg # NULL
    /\ obj_id[last.arg] = next_object_id
    /\ next_object_id > 1

\* C5 as stated: add_object of an object whose id is already a key of the
\* map is rejected and the stored entry is left as it was.
C5_DuplicateRejected ==
    [][(/\ last'.op = "add_object"
        /\ last'.arg # NULL
        /\ obj_id[last'.arg] \in DOMAIN objects)
        => (~last'.ok /\ objects' = objects)]_vars
\* C5 as the code has it: add_object of an object whose id is already a key
\* of the map succeeds, and the entry under that id becomes the object
\* passed in (the other entries are untouched).
C5_DuplicateOverwrites ==
    [][(/\ last'.op = "add_object"
        /\ last'.arg # NULL
        /\ obj_id[last'.arg] \in DOMAIN objects)
        => /\ last'.ok
           /\ DOMAIN objects' = DOMAIN objects
           /\ objects'[obj_id[last'.arg]] = last'.arg
           /\ \A k \in DOMAIN objects :
                 k # obj_id[last'.arg] => objects'[k] = objects[k]]_vars
C5_Witness ==
    /\ last.op = "add_object"
    /\ last.ok
    /\ \E e \in Entities :
          /\ e # last.arg
          /\ obj_id[e] = obj_id[last.arg]
          /\ returned # << >>
          /\ lookup(obj_id[e]) = last.arg

\* C6 as stated: once remove_object has erased id k, is_valid_object_id(k)
\* is false in every later state.
C6_RemovedIsInvalid == \A k \in removed : ~is_valid_object_id(k)
\* C6 as the code has it: is_valid_object_id is the range test only, so an
\* erased id stays valid in every later state; what the removal empties is
\* the lookup of k, in the state the removal leaves.
C6_RemovedStaysValid ==
    /\ \A k \in removed : is_valid_object_id(k)
    /\ (last.op = "remove_object" /\ last.ok) =>
          (last.arg \in removed /\ lookup(last.arg) = NULL)
C6_Witness ==
    /\ last.op = "remove_object"
    /\ last.ok
    /\ last.arg \in removed
    /\ last.arg \notin DOMAIN objects

\* C7: remove_object(k) changes only the entry of k: a present k is erased
\* (its lookup is then empty), every other id keeps its object and
\* next_object_id is unchanged; an absent k leaves the registry unchanged.
C7_RemoveFrame ==
    [][last'.op = "remove_object" =>
        /\ next_object_id' = next_object_id
        /\ obj_id' = obj_id
        /\ returned' = returned
        /\ last'.arg \notin DOMAIN objects'
        /\ \A k \in IdArgs \ {last'.arg} :
              /\ (k \in DOMAIN objects') = (k \in DOMAIN objects)
              /\ k \in DOMAIN objects => objects'[k] = objects[k]
        /\ last'.ok = (last'.arg \in DOMAIN objects)
        /\ last'.arg \notin DOMAIN objects => objects' = objects]_vars
C7_Witness ==
    /\ last.op = "remove_object"
    /\ last.ok
    /\ objects # << >>
    /\ last.arg \notin DOMAIN objects

\* C8: a render pass tolerates 'not found': when a non-zero id of the map's
\* sprite or map-object list has no entry in the registry, render_sprites /
\* render_objects do not use the empty lookup result; the slot is skipped
\* and the frame continues to its end (the GUI pass).
C8_RenderToleratesNotFound ==
    frame # << >> =>
        /\ \A i \in 1..Len(frame) : frame[i].ev \notin {"deref_empty", "crash"}
        /\ frame[Len(frame)].pass = "gui"

\* C9: only id allocation is mutually exclusive. At most one thread is
\* between the lock and the unlock of get_next_id and exactly that thread
\* holds the mutex; the statements of add_object, remove_object, get_object
\* and is_valid_object_id run without it, so the states of the witness are
\* reachable: a map mutation overlapping another thread's map access, and
\* an unlocked read of next_object_id pending while it is being incremented.
C9_OnlyAllocationLocked ==
    /\ Cardinality({t \in Threads : pc[t] \in CriticalPcs}) <= 1
    /\ \A t \in Threads : (pc[t] \in CriticalPcs) = (object_manager_mutex = t)
C9_Witness ==
    /\ map_damaged
    /\ torn_read
    /\ \E a, b \in Threads :
          /\ a # b
          /\ pc[a] \in MapWritePcs
          /\ pc[b] \in MapReadPcs \cup MapWritePcs
          /\ object_manager_mutex = 0
    /\ next_object_id > 1

\* C10: a window's surface is presented or made current only when it is
\* fully live. Whenever visible is true the EGL surface exists, the context
\* was connected to it and the backend resource of the surface that was
\* built exists (overlay element for Direct, pixel buffer for Offscreen);
\* after a failed build or a failed teardown the window is not visible, so
\* swap_buffers never presents a surface that is not fully built. (The
\* connection is the one the build makes; use_context / disable_context
\* rebind it at the caller's wish and are not constrained here.)
C10_VisibleImpliesLive ==
    \A w \in windows :
        /\ gw[w].visible =>
              /\ gw[w].surface = "live"
              /\ IF gw[w].was_foreground
                    THEN gw[w].dispmanElement
                    ELSE gw[w].background_surface
        /\ gw[w].failed # "no" => ~gw[w].visible
        /\ gw[w].presented \in {"nothing", "swapped", "blitted"}

C12_SdlUpWhileWindows == windows # {} => sdl_up

\* C13: within one update() no init_surface call is made while events are
\* still being polled, and once the queue is drained every window that was
\* sent one or more events that mark it stale (resize, move, focus gain,
\* focus loss) gets exactly one init_surface call in that update(), however
\* many such events it was sent.
C13_OneReinitPerSweep ==
    \A w \in windows :
        /\ upd_pc = "poll" => gw[w].attempts = 0
        /\ gw[w].attempts <= 1
        /\ (upd_pc = "post" /\ w \notin upd_todo /\ gw[w].marks >= 1)
              => gw[w].attempts = 1

C13_Witness ==
    /\ upd_pc = "post"
    /\ \E w \in windows :
          /\ w \notin upd_todo
          /\ gw[w].marks >= 2
          /\ gw[w].attempts = 1

\* C14: a window whose surface rebuild failed during an update() stays
\* pending: after the failed init_surface its pending action is still
\* DO_INIT and it is not visible, so that the next update() retries the
\* rebuild.
C14_FailedStaysPending ==
    \A w \in windows :
        gw[w].failed # "no" =>
            /\ gw[w].change_surface = "DO_INIT"
            /\ ~gw[w].visible

\* C15: a window that is sent a resize event during an update() is stale
\* when polling ends (pending action DO_INIT, resizing set). After the
\* second loop has visited it once, with the rebuild succeeding, it is live
\* again (visible, nothing pending), its stored size is the size the window
\* system reports, and the resize subscribers ran once, after that size was
\* stored: the viewer's display width / height are the new pixel size
\* divided by the tile size.
C15_ResizeRoundTrip ==
    \A w \in windows :
        /\ (upd_pc = "post" /\ w \in upd_todo /\ gw[w].resized) =>
              /\ gw[w].change_surface = "DO_INIT"
              /\ gw[w].resizing
        /\ (upd_pc = "post" /\ w \notin upd_todo /\ gw[w].resized
                /\ gw[w].failed = "no") =>
              /\ gw[w].visible
              /\ gw[w].change_surface = "DO_NOTHING"
              /\ ~gw[w].resizing
              /\ gw[w].attempts = 1
              /\ gw[w].window_width = os_geom[w][3]
              /\ gw[w].window_height = os_geom[w][4]
              /\ gw[w].broadcasts = 1
              /\ gw[w].display_width = FloatDiv(os_geom[w][3], actual_tile_size)
              /\ gw[w].display_height = FloatDiv(os_geom[w][4], actual_tile_size)

C15_Witness ==
    /\ upd_pc = "post"
    /\ \E w \in windows :
          /\ w \notin upd_todo
          /\ gw[w].resized
          /\ gw[w].failed = "no"
          /\ gw[w].visible
          /\ gw[w].window_width = 3
          /\ gw[w].display_width = FloatDiv(3, actual_tile_size)

\* C16: the teardown of a visible window's surface releases the backend
\* resources in reverse order of acquisition: the context is disconnected
\* from the surface, then the surface is destroyed, and only then is the
\* overlay element removed (Direct) or the pixel buffer freed (Offscreen).
C16_TeardownOrder ==
    \A w \in windows :
        gw[w].visible =>
            deinit_surface_calls(gw[w]) =
                << "disconnect_context", "destroy_surface",
                   IF gw[w].was_foreground THEN "element_remove"
                                           ELSE "free_pixel_buffer" >>

\* C17: no backend resource leaks across rebuilds. Whatever init_surface
\* calls succeeded or failed before, an overlay element, EGL surface or
\* pixel buffer acquired by an earlier attempt has been released by the
\* time the next attempt acquires a new one: no handle is overwritten
\* while the resource it names is still held.
C17_NoLeak == \A w \in windows : gw[w].leaked = {}

\* C18: every successful surface build uses the backend picked by the
\* window's foreground flag at build time. Between the second loop's visit
\* of a window and the next poll loop, a visible window whose last build
\* succeeded has was_foreground = foreground and, if foreground, a Direct
\* surface on an overlay element placed at the queried position plus the
\* overscan offset, else an Offscreen pbuffer of the window's size. Hence a
\* focus-loss event and a successful rebuild leave an Offscreen surface, a
\* focus-gain event and a successful rebuild a Direct one.
C18_BackendByForeground ==
    \A w \in windows :
        ( /\ upd_pc \in {"idle", "post"}
          /\ upd_pc = "post" => w \notin upd_todo
          /\ gw[w].visible
          /\ gw[w].failed = "no" ) =>
            /\ gw[w].was_foreground = gw[w].foreground
            /\ IF gw[w].foreground
                 THEN /\ gw[w].backend = "Direct"
                      /\ gw[w].dispmanElement
                      /\ gw[w].destination =
                            << gw[w].window_x + overscan_left,
                               gw[w].window_y + overscan_top,
                               gw[w].window_width, gw[w].window_height >>
                 ELSE /\ gw[w].backend = "Offscreen"
                      /\ gw[w].pbuffer_size =
                            << gw[w].window_width, gw[w].window_height >>

C18_Witness ==
    /\ upd_pc = "post"
    /\ \E w \in windows :
          /\ w \notin upd_todo
          /\ call.op = "update_post" /\ call.w = w
          /\ gw[w].marks >= 1
          /\ gw[w].attempts = 1
          /\ gw[w].visible
          /\ gw[w].failed = "no"
          /\ ~gw[w].foreground
          /\ gw[w].backend = "Offscreen"

\* C19: in every update() a visible window whose queried content-area
\* position differs from window_x / window_y is rebuilt whether or not it
\* was sent an event, and a successful rebuild stores the queried geometry.
\* So a visible window whose last build succeeded and which the window
\* system has not moved since has stored the position the query returns,
\* and with no event for it the second loop does not rebuild it again.
C19_PositionCheckStabilises ==
    \A w \in windows :
        /\ (upd_pc = "post" /\ w \notin upd_todo /\ gw[w].attempts = 0) =>
              \/ ~gw[w].visible
              \/ /\ gw[w].window_x = os_geom[w][1]
                 /\ gw[w].window_y = os_geom[w][2]
        /\ (upd_pc = "post" /\ w \notin upd_todo /\ gw[w].attempts = 1
                /\ gw[w].failed = "no") =>
              << gw[w].window_x, gw[w].window_y,
                 gw[w].window_width, gw[w].window_height >> = os_geom[w]
        /\ (gw[w].visible /\ gw[w].failed = "no" /\ ~gw[w].moved) =>
              /\ gw[w].window_x = os_geom[w][1]
              /\ gw[w].window_y = os_geom[w][2]
        /\ (upd_pc = "post" /\ w \in upd_todo /\ gw[w].visible
                /\ gw[w].failed = "no" /\ ~gw[w].moved /\ gw[w].marks = 0) =>
              ~WillInit(gw[w], os_geom[w])

C19_Witness ==
    /\ upd_pc = "post"
    /\ inputs = 2
    /\ \E w \in windows :
          /\ w \notin upd_todo
          /\ gw[w].marks = 0
          /\ gw[w].attempts = 1
          /\ gw[w].failed = "no"
          /\ gw[w].visible
          /\ ~gw[w].moved
          /\ gw[w].window_x = os_geom[w][1]

\* C20: the close protocol is cooperative. request_close, called directly
\* or by update() for a window close event, changes nothing but the
\* window's close_requested flag: the window stays registered and every
\* other field of every window is as before. check_close is true from then
\* on until cancel_close is called for that window, and it becomes true
\* only by request_close, a close event for the window, or a quit event.
\* (The window is one the index holds; an event of an id the index does not
\* hold is the subject of C33.)
C20_CooperativeClose ==
    [][ \A w \in WinIds :
          /\ (call'.op \in {"request_close", "CLOSE"} /\ call'.w = w /\ ~call'.null) =>
                /\ windows' = windows
                /\ w \in windows
                /\ gw' = [gw EXCEPT ![w].close_requested = TRUE]
                /\ check_close(gw'[w])
          /\ (w \in windows /\ w \in windows') =>
                /\ (check_close(gw[w]) /\ ~check_close(gw'[w])) =>
                      call' = Called("cancel_close", w, FALSE)
                /\ (~check_close(gw[w]) /\ check_close(gw'[w])) =>
                      \/ call'.op \in {"request_close", "CLOSE"} /\ call'.w = w
                      \/ call' = Called("update_post", w, FALSE) /\ close_all
      ]_vars

C20_Witness ==
    /\ upd_pc = "idle"
    /\ call.op = "request_close"
    /\ call.w \in windows
    /\ check_close(gw[call.w])
    /\ gw[call.w].visible
    /\ gw[call.w].surface = "live"

\* C21: in each update() the input-manager protocol is ordered. clean() has
\* run on every registered window's input manager before any event is
\* polled; each polled event is handed to at most one input manager, that of
\* the window focused_window points to after the event's own focus update
\* (a window that gains focus by the event receives it, one that loses focus
\* by it does not, no focus means no receiver); run_callbacks() runs on no
\* window while events are polled and exactly once on every window the
\* second loop has visited. (The events are those of windows the index
\* holds; an event of an id it does not hold is the subject of C33.)
C21_InputManagerProtocol ==
    /\ upd_pc \in {"poll", "post"} =>
          \A w \in windows : gw[w].cleaned
    /\ call.op \in WindowEvents \cup {"QUIT"} =>
          /\ \A w \in windows : gw[w].cleaned
          /\ Cardinality(call.to) <= 1
          /\ call.to = IF focused_window = 0 THEN {} ELSE {focused_window}
          /\ (call.op \in {"RESIZED", "MOVED", "FOCUS_GAINED"} /\ ~call.null) => call.to = {call.w}
          /\ (call.op = "FOCUS_LOST" /\ ~call.null) => call.w \notin call.to
    /\ upd_pc = "poll" => \A w \in windows : gw[w].callbacks = 0
    /\ upd_pc = "post" =>
          \A w \in windows : gw[w].callbacks = IF w \in upd_todo THEN 0 ELSE 1

\* An event of one window is handed to the input manager of the other, the
\* focused one, with both windows cleaned.
C21_Witness ==
    /\ upd_pc = "poll"
    /\ call.op = "CLOSE"
    /\ call.w \in windows
    /\ focused_window \in windows \ {call.w}
    /\ call.to = {focused_window}
    /\ \A w \in windows : gw[w].cleaned

\* The interval the offset is clamped into, with length - bound as the
\* function computes it.
ClampLow(length, bound) == IF bound <= length THEN 0 ELSE Fl(length - bound)
ClampHigh(length, bound) == IF bound <= length THEN Fl(length - bound) ELSE 0
Clamped(raw, low, high) == IF raw < low THEN low ELSE IF raw > high THEN high ELSE raw

C23_Idempotent == centre.applied = 2 => centre.again = centre.offset

\* C23, amended: the second application returns o whenever the centre
\* o + bound/2 of the placed viewport is a float, that is the addition does
\* not round; when it rounds the second offset may differ from o.
C23_IdempotentWhenExact ==
    (centre.applied = 2 /\ Fl(centre.offset + centre.bound \div 2) = centre.offset + centre.bound \div 2)
        => centre.again = centre.offset

\* A clamped offset, not 0, re-applied with its exact centre.
C23_Witness ==
    /\ centre.applied = 2
    /\ centre.offset # 0
    /\ centre.offset # Fl(centre.point - centre.bound \div 2)
    /\ Fl(centre.offset + centre.bound \div 2) = centre.offset + centre.bound \div 2
    /\ centre.again = centre.offset

\* The clamping law on both axes, for map m and the current viewport size.
ClampingLaw(m) ==
    /\ ClampLow(map_width(m), display_width) <= display_x
    /\ display_x <= ClampHigh(map_width(m), display_width)
    /\ ClampLow(map_height(m), display_height) <= display_y
    /\ display_y <= ClampHigh(map_height(m), display_height)

\* C24: in every reachable state in which a map is bound, whatever set_map,
\* set_map_focus_object, resize, refocus_map calls, sprite moves and registry
\* removals came before, the viewport origin satisfies the clamping law on
\* each axis for the bound map's size and the current viewport size.
C24_ViewportClamped == (Alive /\ map # NULL) => ClampingLaw(map)

\* The focus id resolves to no sprite: it is 0, or nothing of kind Sprite is
\* registered under it.
Unresolved(focus) == focus = 0 \/ get_object(focus, "Sprite") = NULL

\* C25: refocus_map changes no viewport geometry when the focus entity
\* cannot be resolved: if the focus id is 0, or the focus entity was removed
\* from the registry after the focus was set, the origin and the size of the
\* viewport are after the call what they were before it.
C25_UnresolvedFocusNoChange ==
    [][ (vcall'.op = "refocus_map" /\ Unresolved(map_focus_object)) =>
           /\ ~vcall'.fatal
           /\ UNCHANGED <<display_x, display_y, display_width, display_height>>
      ]_vars

\* refocus_map was called with the focus sprite removed, the origin away
\* from 0 and a map bound.
C25_Witness ==
    /\ vcall.op = "refocus_map"
    /\ map_focus_object \in removed
    /\ Unresolved(map_focus_object)
    /\ map # NULL
    /\ display_x # 0

\* <<x, y>> is the origin refocus_map leaves for a focus sprite at tile pos
\* on map m, the viewport being width x height.
Refocused(x, y, pos, m, width, height) ==
    /\ x = centre_point_in_range(Fl(pos[1] * Unit + Unit \div 2), map_width(m), width)
    /\ y = centre_point_in_range(Fl(pos[2] * Unit + Unit \div 2), map_height(m), height)

PassRank(pass) ==
    CASE pass = "clear" -> 0
      [] pass = "layers" -> 1
      [] pass = "objects" -> 2
      [] pass = "sprites" -> 3
      [] pass = "gui" -> 4

\* C27: every frame is drawn in one fixed order: the buffers are cleared
\* first, then the map layers from the bottom one up, then the map objects,
\* then the sprites, then the GUI; no call of an earlier pass is issued after
\* a call of a later pass.
C27_FixedDrawOrder ==
    frame # << >> =>
        /\ frame[1].pass = "clear"
        /\ \A i \in 2..Len(frame) : frame[i].pass # "clear"
        /\ \A i, j \in 1..Len(frame) :
              i < j =>
                /\ PassRank(frame[i].pass) <= PassRank(frame[j].pass)
                /\ (frame[i].pass = "layers" /\ frame[j].pass = "layers") =>
                      frame[i].slot <= frame[j].slot

\* A frame with two layers, a map object, a sprite and the GUI drawn.
C27_Witness ==
    /\ vcall.op = "render"
    /\ \E i \in 1..Len(frame) : frame[i] = Ev("layers", 2, "draw")
    /\ \E i \in 1..Len(frame) : frame[i].pass = "objects" /\ frame[i].ev = "draw"
    /\ \E i \in 1..Len(frame) : frame[i].pass = "sprites" /\ frame[i].ev = "draw"
    /\ frame[Len(frame)] = Ev("gui", 0, "release_shader")

\* C28: render() called while no map is bound is a fatal precondition
\* violation: the call aborts before it clears a buffer, recomputes the
\* viewport or issues a draw call, and leaves the viewport state unchanged.
C28_RenderWithoutMapAborts ==
    [][ (vcall'.op = "render" /\ map = NULL) =>
           /\ vcall'.fatal
           /\ frame' = << >>
           /\ UNCHANGED <<map, map_focus_object, display_x, display_y,
                          display_width, display_height>>
      ]_vars

\* render() has aborted on the unbound viewer of a running Challenge, the
\* origin away from 0.
C28_Witness ==
    /\ vcall.op = "render"
    /\ vcall.fatal
    /\ map = NULL
    /\ challenge_map # NULL
    /\ ~Unresolved(map_focus_object)
    /\ display_x # 0
    /\ frame = << >>

\* The frame ran into no empty registry lookup (the subject of C8).
Resolved(log) == \A i \in 1..Len(log) : log[i].ev \notin {"deref_empty", "crash"}

\* Slot i of list ids holds an entity of kind k whose component has a shader.
Drawable(ids, i, k) ==
    /\ ids[i] # 0
    /\ get_object(ids[i], k) # NULL
    /\ get_object(ids[i], k) \notin no_shader

\* C29: in render_objects and render_sprites an entity whose renderable
\* component has no shader is the only one skipped: every entity of the list
\* whose shader is present is drawn in that frame, also the ones after the
\* shaderless one, and the following passes, up to the GUI, still run.
C29_OnlyShaderlessSkipped ==
    (frame # << >> /\ Resolved(frame)) =>
        /\ \A i \in 1..Len(get_map_objects(map)) :
              Drawable(get_map_objects(map), i, "MapObject") =>
                 \E j \in 1..Len(frame) : frame[j] = Ev("objects", i, "draw")
        /\ \A i \in 1..Len(get_sprites(map)) :
              Drawable(get_sprites(map), i, "Sprite") =>
                 \E j \in 1..Len(frame) : frame[j] = Ev("sprites", i, "draw")
        /\ frame[Len(frame)].pass = "gui"

\* The bind and release calls made for one renderable component in a frame.
BindCalls == {"bind_shader", "bind_vbos", "bind_textures",
              "release_textures", "release_vbos", "release_shader"}

BindsOf(log, pass, slot) ==
    SelectSeq(log, LAMBDA e : e.pass = pass /\ e.slot = slot /\ e.ev \in BindCalls)

Balanced ==
    << "bind_shader", "bind_vbos", "bind_textures",
       "release_textures", "release_vbos", "release_shader" >>

\* C30: for every layer, map object, sprite and the GUI the frame binds
\* shader, vertex buffers, textures in that order and releases textures,
\* vertex buffers, shader in that order, and at the end of the pass each bind
\* has its release, on every path including the one with no shader.
C30_BindReleaseBalanced ==
    \A i \in 1..Len(frame) :
        LET b == BindsOf(frame, frame[i].pass, frame[i].slot)
        IN  \/ b = << >>
            \/ /\ Len(b) = Len(Balanced)
               /\ \A j \in 1..Len(b) : b[j].ev = Balanced[j]

\* C32: focused_window is null or a window registered in the window index,
\* after any sequence of constructions, destructions and update() sweeps:
\* destroying the focused window clears the focus, so update() hands no event
\* to the input manager of a destroyed window.
C32_FocusedWindowRegistered ==
    /\ focused_window = 0 \/ focused_window \in windows
    /\ call.to \subseteq windows

\* C33: the window index maps only ids of constructed, not yet destroyed
\* windows, each to its own window: polling a window event whose window id
\* is not in the index neither adds an entry to the index nor goes through a
\* missing window, and the second loop of update() visits real windows only.
C33_IndexHoldsLiveWindows ==
    /\ null_windows = {}
    /\ ~call.null
    /\ upd_todo \subseteq windows

\* C34: at the end of every update() sweep, and so whenever swap_buffers
\* runs between sweeps, a window with visible = true has was_foreground =
\* foreground: swap_buffers presents with the backend the live surface was
\* built for, and in Offscreen presentation the pixel buffer it reads is
\* non-null.
C34_PresentsBuiltBackend ==
    upd_pc = "idle" =>
        \A w \in windows :
            /\ gw[w].visible =>
                  /\ gw[w].was_foreground = gw[w].foreground
                  /\ ~gw[w].foreground => gw[w].background_surface
            /\ gw[w].presented \in {"nothing", "swapped", "blitted"}

\* The stored size of window w.
StoredSize(W) == <<W.window_width, W.window_height>>

\* C35: resize subscribers always observe the window's current size.
\* Whenever the second loop's init_surface succeeds and changes the stored
\* window width / height, the resize callbacks are broadcast in that same
\* visit, after the new size is stored (the viewer's display size is the new
\* size divided by the tile size), also when the rebuild that the resize
\* event asked for failed at first and succeeds on a later sweep's retry.
C35_ResizeBroadcastOnNewSize ==
    [][ \A w \in windows :
          ( /\ upd_pc = "post"
            /\ w \in windows'
            /\ StoredSize(gw'[w]) # StoredSize(gw[w]) ) =>
              /\ gw'[w].broadcasts = gw[w].broadcasts + 1
              /\ gw'[w].display_width = FloatDiv(gw'[w].window_width, actual_tile_size)
              /\ gw'[w].display_height = FloatDiv(gw'[w].window_height, actual_tile_size)
      ]_vars

\* C37: if a quit event is polled anywhere in an update() sweep, then at the
\* end of that sweep check_close() is true for every window in the index,
\* and the sweep has destroyed no window and removed none from the index;
\* without a quit or close event update() sets no window's close flag.
C37_QuitClosesAll ==
    [][ /\ (upd_pc = "post" /\ upd_pc' = "idle" /\ close_all) =>
              \A w \in windows' : check_close(gw'[w])
        /\ upd_pc # "idle" => windows' = windows
        /\ (upd_pc # "idle" \/ upd_pc' # "idle") =>
              \A w \in windows :
                  (~check_close(gw[w]) /\ check_close(gw'[w])) =>
                      \/ close_all
                      \/ call'.op = "CLOSE" /\ call'.w = w
      ]_vars

\* The second loop of a sweep that polled a quit event has visited both
\* windows: both are asked to close, both still registered and visible.
C37_Witness ==
    /\ upd_pc = "post"
    /\ close_all
    /\ upd_todo = {}
    /\ Cardinality(windows) = 2
    /\ \A w \in windows : check_close(gw[w]) /\ gw[w].visible

\* The non-empty slots of an id list.
IdsOf(ids) == {ids[i] : i \in 1..Len(ids)} \ {0}

\* C31: when a Challenge is destroyed, every sprite id and map object id it
\* made through make_sprite / make_map_object is removed from the registry
\* and the map viewer is left with no bound map; entries made by anything
\* else are untouched, and an id it released is never handed out again to a
\* later Challenge.
C31_ChallengeReleasesItsObjects ==
    [][ /\ vcall'.op = "~Challenge" =>
              /\ \A id \in IdsOf(map_sprites) \cup IdsOf(map_objects) :
                    id \notin DOMAIN objects'
              /\ map' = NULL
              /\ \A id \in DOMAIN objects \ (IdsOf(map_sprites) \cup IdsOf(map_objects)) :
                    id \in DOMAIN objects' /\ objects'[id] = objects[id]
        /\ vcall'.op \in {"Challenge", "make_sprite", "make_map_object"} =>
              /\ vcall'.arg \notin removed
              /\ \A i \in 1..Len(returned) : returned[i] # vcall'.arg
      ]_vars

\* A Challenge that made the sprite with id 1 has been destroyed while an
\* object registered by other code holds id 2: id 1 is gone, id 2 is there,
\* no map is bound.
C31_Witness ==
    /\ vcall.op = "~Challenge"
    /\ map = NULL
    /\ challenge_map = NULL
    /\ last = Call("remove_object", 1, 0, TRUE)
    /\ 1 \in removed
    /\ DOMAIN objects = {2}

\* The step ran refocus_map() to the point where the focus id had resolved to
\* a live Sprite, so that map->get_width() / map->get_height() is read next.
ReadsMapSize(op, arg, focus, objs, kinds, m) ==
    /\ \/ op \in {"refocus_map", "make_sprite", "Challenge"}
       \/ op = "set_map_focus_object" /\ is_valid_object_id(arg)
       \/ op \in {"resize", "render"} /\ m # NULL
    /\ focus \in DOMAIN objs
    /\ kinds[objs[focus]] = "Sprite"

\* C36: refocus_map never reads the map's dimensions while no map is bound.
\* On every call path (resize, render_map, set_map_focus_object, the
\* Challenge's make_sprite, refocus_map itself), whenever the focus id
\* resolves to a live entity a map is bound, for any order of set_map(null),
\* set_map_focus_object and Challenge construction / destruction.
C36_RefocusHasMap ==
    [][ ReadsMapSize(vcall'.op, vcall'.arg, map_focus_object', objects', kind', map') =>
           map' # NULL
      ]_vars

\* C38: the shader cache never keeps a dead entry. When the last owner of a
\* cached shader releases it, the destructor removes the entry stored under
\* the program name it was inserted with, so every name present in the cache
\* refers to a live shader and get_shader on a cached name returns that live
\* shader, the same object for the same name.
C38_CacheHoldsLiveShaders ==
    /\ \A name \in DOMAIN shaders : Live(shaders[name])
    /\ (scall.op = "get_shader" /\ ~scall.thrown) =>
          /\ scall.ret # NULL
          /\ ~scall.fatal
          /\ scall.name \in DOMAIN shaders
          /\ shaders[scall.name] = scall.ret

====
